---- MODULE Spec2Model ----
(***************************************************************************)
(* The satellite bridge of midi-relay-hub (class ScreenDeckSatellite): the *)
(* TCP client that registers the configured ScreenDeck devices with a      *)
(* Companion satellite server, its connect / reconnect / disconnect        *)
(* handling and its handling of the lines the peer sends.                  *)
(*                                                                         *)
(* Every handler of the single-threaded event loop is one action.  The     *)
(* methods of the class are operators on a record `w` that holds the       *)
(* fields of the object together with the parts of the runtime a handler   *)
(* can change (the timer queue, the destroyed sockets that still owe a     *)
(* 'close' event, the lines written during the handler).                   *)
(*                                                                         *)
(* Seven specifications share the variables.  Spec is the bridge, which    *)
(* receives its lines already split.  SpecFrames is the frame splitter:    *)
(* the 'data' handler that decodes each chunk and handleData that cuts the *)
(* text into lines.  SpecSurfaces is the Surface Registry of api.js with   *)
(* the socket.io events of a subscriber.  SpecKeys is the key traffic of   *)
(* the bridge: per-key updates from the peer and key events from the       *)
(* device windows.  SpecCodec is the command codec on characters: the      *)
(* tokenizer, the parameter decoder and the encoder of outgoing commands,  *)
(* and the indexing of keys.  SpecLive is the bridge facing a cooperative  *)
(* peer, with fair delivery of socket and timer events.  SpecOwners is the *)
(* Surface Registry with two subscriber connections.                       *)
(***************************************************************************)
EXTENDS Integers, Sequences, FiniteSets, TLC

VARIABLES
    socket,             \* this.socket: state of the socket object it refers to
    connected,          \* this.connected
    connecting,         \* this.connecting
    reconnectTimer,     \* this.reconnectTimer is not null
    lastBegin,          \* this.lastBegin: << >> for null, <<params>> otherwise
    devices,            \* this.devices: id -> descriptor
    registeredDevices,  \* this.registeredDevices
    pendingDevices,     \* this.pendingDevices
    windows,            \* this.windows: ids of the devices with an open window
    surfaces,           \* surfaces the bridge registered with the Surface Registry
    timers,             \* timeouts of scheduleReconnect waiting in the event loop
    closing,            \* destroyed sockets whose 'close' event is still to come
    out,                \* lines written to the socket by the last handler
    dials,              \* socket.connect() calls made by the last handler
    op,                 \* the last handler that ran and the line or payload it was
                        \* given; for a reload, the configuration and the ids and
                        \* windows it found
    pre,                \* what the last handler found: handshake sets, timer, socket
    idle,               \* disconnect() was called and reconnect() not since
    clears,             \* clear directives the last handler gave: registry, windows
    carried,            \* ids registered when a socket 'close' or 'error' last
                        \* emptied the sets, until the next BEGIN is handled
    draws,              \* draw and key directives the last handler gave:
                        \* registry, windows
    buffer,             \* this.buffer: received text not yet split into lines
    stream,             \* the bytes received since the buffer was last reset
    dispatched,         \* the lines handed to handleLine since then
    clients,            \* ids of the socket.io connections that are open
    surfaceIdBySocketId, \* api.js surfaceIdBySocketId: connection -> surface id
    owned,              \* <<connection, surface id>>: who registered a surface last
    emits,              \* socket.io events the last handler emitted
    ev,                 \* the last socket.io event handled, with its payload
    now,                \* Date.now()
    codec               \* the last call of a codec function: argument and result

bridgeVars == <<socket, connected, connecting, reconnectTimer, lastBegin, devices,
                registeredDevices, pendingDevices, windows, timers,
                closing, out, dials, op, pre, idle, clears, carried, draws>>

frameVars == <<buffer, stream, dispatched>>

registryVars == <<clients, surfaceIdBySocketId, owned, emits, ev, now>>

codecVars == <<codec>>

vars == <<bridgeVars, surfaces, frameVars, registryVars, codecVars>>

\* ------------------------------------------------------------------------
\* Bounds of the model
\* ------------------------------------------------------------------------

\* longest device list of a configuration
MaxDevices == 2
\* most destroyed sockets that may owe their 'close' event at one time
MaxClosing == 2
\* most timeouts the event loop is allowed to hold
MaxTimers == 2

\* ------------------------------------------------------------------------
\* Values
\* ------------------------------------------------------------------------

\* a parameter that a line does not carry
Absent == "<absent>"
\* the value parseParams gives a bare token (JavaScript true)
Flag == "<true>"
\* a device id of a configuration entry that is not a string
NotString == "<not-a-string>"

\* Number.parseInt(String(value), 10): a finite integer or NaN
Num(n) == [nan |-> FALSE, n |-> n]
NaN == [nan |-> TRUE, n |-> 0]

Max(a, b) == IF a >= b THEN a ELSE b
Min(a, b) == IF a <= b THEN a ELSE b

clampInt(value, min, max, fallback) ==
    IF value.nan THEN fallback ELSE Max(min, Min(max, value.n))

\* String.prototype.trim on the id strings the configurations use
Trim(s) ==
    CASE s = " dev2 " -> "dev2"
      [] s = "   "    -> ""
      [] OTHER        -> s

\* the entries a configuration's device list is made of
RawEntries ==
    { [obj |-> TRUE,  id |-> "dev1",  columns |-> Num(2), rows |-> Num(2), bitmap |-> Num(72),
       backgroundOpacity |-> Num(150)],
      [obj |-> TRUE,  id |-> " dev2 ", columns |-> NaN,   rows |-> Num(0), bitmap |-> Num(600),
       backgroundOpacity |-> NaN],
      [obj |-> TRUE,  id |-> "   ",   columns |-> Num(4), rows |-> Num(4), bitmap |-> Num(72),
       backgroundOpacity |-> Num(-5)] }

\* config.get('screenDeck').devices: a list that names no entry twice
Configs ==
    UNION { {c \in [1..n -> RawEntries] : \A i, j \in 1..n : c[i] = c[j] => i = j} :
            n \in 0..MaxDevices }

\* device ids a peer may name: the configurable ones and one that never is
PeerIds == {"dev1", "dev2", "devX"}

\* the parameter map of an acknowledgment line: the keys it carries
Params(id, ok, err) ==
    LET val == [k \in {"DEVICEID", "OK", "ERROR"} |->
                   CASE k = "DEVICEID" -> id [] k = "OK" -> ok [] OTHER -> err]
    IN  [k \in {x \in DOMAIN val : val[x] # Absent} |-> val[k]]

NoParams == [k \in {} |-> Absent]

\* the OK and ERROR parameters of the acknowledgments a peer sends
Acks == { <<"1", Absent>>, <<Flag, Absent>>, <<"0", Absent>>, <<Absent, Absent>>,
          <<"1", Flag>>, <<"1", "">>, <<Absent, Flag>> }

\* the lines a peer sends, as handleLine splits them: verb, body, parameters
Lines ==
    { [cmd |-> "BEGIN", body |-> "ApiVersion=1.0.0", params |-> [k \in {"ApiVersion"} |-> "1.0.0"]],
      [cmd |-> "BEGIN", body |-> "", params |-> NoParams],
      [cmd |-> "PING", body |-> "", params |-> NoParams],
      [cmd |-> "PING", body |-> "x y", params |-> [k \in {"x", "y"} |-> Flag]],
      [cmd |-> "PONG", body |-> "x y", params |-> [k \in {"x", "y"} |-> Flag]],
      [cmd |-> "NOPE", body |-> "", params |-> NoParams] }
    \cup
    { [cmd |-> "ADD-DEVICE", body |-> "", params |-> Params(id, a[1], a[2])] :
        id \in PeerIds \cup {Absent, Flag}, a \in Acks }
    \cup
    { [cmd |-> "KEYS-CLEAR", body |-> "", params |-> Params(id, Absent, Absent)] :
        id \in {"dev1", "devX", Absent, ""} }

NoLine == [cmd |-> "", body |-> "", params |-> NoParams]

Get(params, k) == IF k \in DOMAIN params THEN params[k] ELSE Absent

\* JavaScript truthiness of a parameter value
Truthy(v) == v # Absent /\ v # ""

\* typeof v === 'string'
IsString(v) == v # Absent /\ v # Flag

\* states of a socket object that has not emitted 'close'
Live == {"new", "connecting", "open", "errored"}

\* ------------------------------------------------------------------------
\* The object and the runtime around it, as one record
\* ------------------------------------------------------------------------

W == [socket |-> socket, connected |-> connected, connecting |-> connecting,
      reconnectTimer |-> reconnectTimer, lastBegin |-> lastBegin,
      devices |-> devices, registeredDevices |-> registeredDevices,
      pendingDevices |-> pendingDevices, windows |-> windows,
      surfaces |-> surfaces,
      timers |-> timers, closing |-> closing, out |-> << >>, dials |-> 0,
      clears |-> << >>, draws |-> << >>]

\* this.devices is a Map: descriptors in insertion order, one per id
Ids(m) == {m[i].id : i \in DOMAIN m}
Has(m, id) == id \in Ids(m)
MapGet(m, id) == m[CHOOSE i \in DOMAIN m : m[i].id = id]
MapSet(m, d) ==
    IF Has(m, d.id)
    THEN [i \in DOMAIN m |-> IF m[i].id = d.id THEN d ELSE m[i]]
    ELSE Append(m, d)

\* ------------------------------------------------------------------------
\* Surface Registry entry points the bridge calls
\* ------------------------------------------------------------------------

\* the key cache of a surface that has drawn nothing
NoKeys == [k \in {} |-> ""]

internalRegisterSurface(reg, info) ==
    [id \in DOMAIN reg \cup {info.surfaceId} |->
        IF id = info.surfaceId
        THEN [name |-> info.name, product |-> info.product, host |-> info.host,
              columns |-> info.columns, rows |-> info.rows, keys |-> NoKeys]
        ELSE reg[id]]

internalRemoveSurface(reg, surfaceId) ==
    [id \in DOMAIN reg \ {surfaceId} |-> reg[id]]

internalSurfaceClear(reg, surfaceId) ==
    [id \in DOMAIN reg |->
        IF id = surfaceId THEN [reg[id] EXCEPT !.keys = NoKeys] ELSE reg[id]]

\* ------------------------------------------------------------------------
\* Methods of ScreenDeckSatellite
\* ------------------------------------------------------------------------

\* a loader that takes the numbers of an entry as they come
RECURSIVE LoadDevices_Unclamped(_, _)
LoadDevices_Unclamped(cfg, m) ==
    IF cfg = << >> THEN m
    ELSE LET d == Head(cfg)
             id == IF d.id = NotString THEN "" ELSE Trim(d.id)
         IN  IF ~d.obj \/ id = ""
             THEN LoadDevices_Unclamped(Tail(cfg), m)
             ELSE LoadDevices_Unclamped(Tail(cfg),
                     MapSet(m, [id |-> id,
                                columns |-> clampInt(d.columns, 1, 32, 8),
                                rows |-> clampInt(d.rows, 1, 32, 4),
                                bitmap |-> IF d.bitmap.nan THEN 72 ELSE d.bitmap.n,
                                backgroundOpacity |->
                                    clampInt(d.backgroundOpacity, 0, 100, 60)]))

\* the loop of reloadFromConfig that fills this.devices
RECURSIVE LoadDevices(_, _)
LoadDevices(cfg, m) ==
    IF cfg = << >> THEN m
    ELSE LET d == Head(cfg)
             id == IF d.id = NotString THEN "" ELSE Trim(d.id)
         IN  IF ~d.obj \/ id = ""
             THEN LoadDevices(Tail(cfg), m)
             ELSE LoadDevices(Tail(cfg),
                     MapSet(m, [id |-> id,
                                columns |-> clampInt(d.columns, 1, 32, 8),
                                rows |-> clampInt(d.rows, 1, 32, 4),
                                bitmap |-> clampInt(d.bitmap, 1, 512, 72),
                                backgroundOpacity |->
                                    clampInt(d.backgroundOpacity, 0, 100, 60)]))

RECURSIVE RegisterAll(_, _)
RegisterAll(reg, m) ==
    IF m = << >> THEN reg
    ELSE RegisterAll(internalRegisterSurface(reg,
                        [surfaceId |-> Head(m).id,
                         name |-> Head(m).id,
                         product |-> "ScreenDeck (Built-in Satellite)",
                         columns |-> Head(m).columns,
                         rows |-> Head(m).rows,
                         host |-> "local"]),
                     Tail(m))

RECURSIVE RemoveAll(_, _)
RemoveAll(reg, ids) ==
    IF ids = {} THEN reg
    ELSE LET id == CHOOSE x \in ids : TRUE
         IN  RemoveAll(internalRemoveSurface(reg, id), ids \ {id})

\* a reload that leaves the windows of dropped devices open
reloadFromConfig_KeepsWindows(w, cfg) ==
    LET previousIds == Ids(w.devices)
        m == LoadDevices(cfg, << >>)
    IN  [w EXCEPT !.devices = m,
                  !.surfaces = RemoveAll(RegisterAll(w.surfaces, m),
                                         previousIds \ Ids(m))]

reloadFromConfig(w, cfg) ==
    LET previousIds == Ids(w.devices)
        m == LoadDevices(cfg, << >>)
    IN  [w EXCEPT !.devices = m,
                  !.surfaces = RemoveAll(RegisterAll(w.surfaces, m),
                                         previousIds \ Ids(m)),
                  !.windows = {id \in w.windows : Has(m, id)}]

\* openWindow for every device (this.apiPort is set once init has run)
openAllWindows(w) == [w EXCEPT !.windows = w.windows \cup Ids(w.devices)]

\* win.on('closed')
onWindowClosed(w, deviceId) == [w EXCEPT !.windows = w.windows \ {deviceId}]

disconnect(w) ==
    [w EXCEPT !.connecting = FALSE,
              !.connected = FALSE,
              !.lastBegin = << >>,
              !.registeredDevices = {},
              !.pendingDevices = {},
              !.reconnectTimer = FALSE,
              !.timers = IF w.reconnectTimer /\ w.timers > 0 THEN w.timers - 1 ELSE w.timers,
              !.socket = "null",
              !.closing = IF w.socket \in Live THEN w.closing + 1 ELSE w.closing]

\* `throws`: socket.connect() raised instead of starting the connection
connect(w, throws) ==
    LET d == disconnect(w)
    IN  [d EXCEPT !.connecting = ~throws,
                  !.connected = FALSE,
                  !.lastBegin = << >>,
                  !.registeredDevices = {},
                  !.pendingDevices = {},
                  !.socket = IF throws THEN "new" ELSE "connecting",
                  !.dials = d.dials + 1]

\* reconnect() that dials although no device is configured
reconnect_NoDeviceCheck(w, throws) == connect(w, throws)

reconnect(w, throws) ==
    IF w.devices = << >> THEN disconnect(w) ELSE connect(w, throws)

\* scheduleReconnect() that sets a timeout although one is outstanding
scheduleReconnect_NoTimerCheck(w) ==
    IF w.devices = << >> THEN w
    ELSE [w EXCEPT !.reconnectTimer = TRUE, !.timers = w.timers + 1]

\* scheduleReconnect() that sets a timeout although no device is configured
scheduleReconnect_NoDeviceCheck(w) ==
    IF w.reconnectTimer THEN w
    ELSE [w EXCEPT !.reconnectTimer = TRUE, !.timers = w.timers + 1]

scheduleReconnect(w) ==
    IF w.reconnectTimer THEN w
    ELSE IF w.devices = << >> THEN w
    ELSE [w EXCEPT !.reconnectTimer = TRUE, !.timers = w.timers + 1]

\* an 'error' handler that keeps the peer announcement
onError_KeepsBegin(w) ==
    scheduleReconnect([w EXCEPT !.connecting = FALSE,
                                !.connected = FALSE,
                                !.registeredDevices = {},
                                !.pendingDevices = {}])

\* socket.on('error')
onError(w) ==
    scheduleReconnect([w EXCEPT !.connecting = FALSE,
                                !.connected = FALSE,
                                !.lastBegin = << >>,
                                !.registeredDevices = {},
                                !.pendingDevices = {}])

\* a 'close' handler that forgets to clear the registered set
onClose_KeepsRegistered(w) ==
    scheduleReconnect([w EXCEPT !.connecting = FALSE,
                                !.connected = FALSE,
                                !.lastBegin = << >>,
                                !.pendingDevices = {}])

\* socket.on('close')
onClose(w) ==
    scheduleReconnect([w EXCEPT !.connecting = FALSE,
                                !.connected = FALSE,
                                !.lastBegin = << >>,
                                !.registeredDevices = {},
                                !.pendingDevices = {}])

\* socket.on('connect')
onConnect(w) ==
    [w EXCEPT !.connecting = TRUE, !.connected = TRUE]

\* the callback scheduleReconnect hands to setTimeout
onTimer(w, throws) ==
    reconnect([w EXCEPT !.reconnectTimer = FALSE], throws)

\* a sendLine that writes the line twice
sendLine_Twice(w, line) ==
    IF w.socket = "null" \/ ~w.connected THEN w
    ELSE [w EXCEPT !.out = Append(Append(w.out, line), line)]

sendLine(w, line) ==
    IF w.socket = "null" \/ ~w.connected THEN w
    ELSE [w EXCEPT !.out = Append(w.out, line)]

sendCommand(w, cmd, args) == sendLine(w, [cmd |-> cmd, args |-> args])

\* addDeviceToCompanion() without the check for pending or registered
addDeviceToCompanion_NoGuard(w, dev) ==
    IF ~w.connected \/ w.socket = "null" THEN w
    ELSE sendCommand([w EXCEPT !.pendingDevices = w.pendingDevices \cup {dev.id}],
                     "ADD-DEVICE",
                     [DEVICEID |-> dev.id,
                      KEYS_TOTAL |-> dev.columns * dev.rows,
                      KEYS_PER_ROW |-> dev.columns,
                      BITMAPS |-> dev.bitmap])

addDeviceToCompanion(w, dev) ==
    IF ~w.connected \/ w.socket = "null" THEN w
    ELSE IF dev.id \in w.registeredDevices \/ dev.id \in w.pendingDevices THEN w
    ELSE sendCommand([w EXCEPT !.pendingDevices = w.pendingDevices \cup {dev.id}],
                     "ADD-DEVICE",
                     [DEVICEID |-> dev.id,
                      KEYS_TOTAL |-> dev.columns * dev.rows,
                      KEYS_PER_ROW |-> dev.columns,
                      BITMAPS |-> dev.bitmap])

\* `for (const dev of this.devices.values()) this.addDeviceToCompanion(dev)`
RECURSIVE AddAll(_, _)
AddAll(w, m) ==
    IF m = << >> THEN w ELSE AddAll(addDeviceToCompanion(w, Head(m)), Tail(m))

\* a BEGIN branch that stops after the first device
handleBegin_FirstOnly(w, line) ==
    AddAll([w EXCEPT !.lastBegin = <<line.params>>, !.connecting = FALSE],
           SubSeq(w.devices, 1, Min(1, Len(w.devices))))

\* the BEGIN branch of handleLine
handleBegin(w, line) ==
    AddAll([w EXCEPT !.lastBegin = <<line.params>>, !.connecting = FALSE], w.devices)

\* an ADD-DEVICE branch that leaves the device in the pending set
handleAddDevice_KeepsPending(w, line) ==
    LET ok == Get(line.params, "OK") = Flag \/ Get(line.params, "OK") = "1"
        deviceId == Get(line.params, "DEVICEID")
    IN  IF IsString(deviceId) /\ deviceId # ""
        THEN [w EXCEPT !.registeredDevices =
                           IF ok /\ ~Truthy(Get(line.params, "ERROR"))
                           THEN w.registeredDevices \cup {deviceId}
                           ELSE w.registeredDevices]
        ELSE w

\* an ADD-DEVICE branch that does not look at the ERROR flag
handleAddDevice_IgnoresError(w, line) ==
    LET ok == Get(line.params, "OK") = Flag \/ Get(line.params, "OK") = "1"
        deviceId == Get(line.params, "DEVICEID")
    IN  IF IsString(deviceId) /\ deviceId # ""
        THEN [w EXCEPT !.pendingDevices = w.pendingDevices \ {deviceId},
                       !.registeredDevices =
                           IF ok THEN w.registeredDevices \cup {deviceId}
                           ELSE w.registeredDevices]
        ELSE w

\* the ADD-DEVICE branch of handleLine
handleAddDevice(w, line) ==
    LET ok == Get(line.params, "OK") = Flag \/ Get(line.params, "OK") = "1"
        deviceId == Get(line.params, "DEVICEID")
    IN  IF IsString(deviceId) /\ deviceId # ""
        THEN [w EXCEPT !.pendingDevices = w.pendingDevices \ {deviceId},
                       !.registeredDevices =
                           IF ok /\ ~Truthy(Get(line.params, "ERROR"))
                           THEN w.registeredDevices \cup {deviceId}
                           ELSE w.registeredDevices]
        ELSE w

broadcastToDeviceWindow(w, deviceId, channel) ==
    IF deviceId \notin w.windows THEN w
    ELSE [w EXCEPT !.clears = Append(w.clears, [to |-> "window", id |-> deviceId])]

\* the KEYS-CLEAR branch of handleLine
handleKeysClear(w, line) ==
    LET deviceId == Get(line.params, "DEVICEID")
    IN  IF ~IsString(deviceId) \/ deviceId = "" THEN w
        ELSE broadcastToDeviceWindow(
                 [w EXCEPT !.surfaces = internalSurfaceClear(w.surfaces, deviceId),
                           !.clears = Append(w.clears, [to |-> "registry", id |-> deviceId])],
                 deviceId, "screendeck:clear")

\* ------------------------------------------------------------------------
\* Key addressing: KEY-STATE and keyPress
\* ------------------------------------------------------------------------

\* String(value): the characters of the KEY values a peer sends (a bare KEY
\* token is the boolean true, a missing one is undefined) and of the verbs,
\* the keys and the text values of the commands the bridge sends
Chars(s) ==
    CASE s = "KEY-PRESS" -> <<"K", "E", "Y", "-", "P", "R", "E", "S", "S">>
      [] s = "DEVICEID"  -> <<"D", "E", "V", "I", "C", "E", "I", "D">>
      [] s = "KEY"       -> <<"K", "E", "Y">>
      [] s = "PRESSED"   -> <<"P", "R", "E", "S", "S", "E", "D">>
      [] s = "PINCODE_LOCK" -> <<"P", "I", "N", "C", "O", "D", "E", "_", "L", "O", "C", "K">>
      [] s = "dev1"      -> <<"d", "e", "v", "1">>
      [] s = "a\"b"      -> <<"a", "\"", "b">>
      [] s = "a b"       -> <<"a", " ", "b">>
      [] s = "a=b"       -> <<"a", "=", "b">>
      [] s = "Key-Press" -> <<"K", "e", "y", "-", "P", "r", "e", "s", "s">>
      [] s = ""          -> << >>
      [] s = "5"     -> <<"5">>
      [] s = "3"     -> <<"3">>
      [] s = "99"    -> <<"9", "9">>
      [] s = "-3"    -> <<"-", "3">>
      [] s = "2x"    -> <<"2", "x">>
      [] s = "1/1"   -> <<"1", "/", "1">>
      [] s = "0/1"   -> <<"0", "/", "1">>
      [] s = "9/0"   -> <<"9", "/", "0">>
      [] s = "0/9"   -> <<"0", "/", "9">>
      [] s = "x/1"   -> <<"x", "/", "1">>
      [] s = "1/"    -> <<"1", "/">>
      [] s = "0/1/9" -> <<"0", "/", "1", "/", "9">>
      [] s = Flag    -> <<"t", "r", "u", "e">>
      [] s = Absent  -> <<"u", "n", "d", "e", "f", "i", "n", "e", "d">>

Digits == <<"0", "1", "2", "3", "4", "5", "6", "7", "8", "9">>

IsDigit(c) == \E i \in DOMAIN Digits : Digits[i] = c

DigitValue(c) == (CHOOSE i \in DOMAIN Digits : Digits[i] = c) - 1

\* the value of the digits a text starts with
RECURSIVE LeadingDigits(_, _)
LeadingDigits(cs, acc) ==
    IF cs = << >> \/ ~IsDigit(Head(cs)) THEN acc
    ELSE LeadingDigits(Tail(cs), acc * 10 + DigitValue(Head(cs)))

\* Number.parseInt(text, 10): an optional sign and the digits that follow
\* it, NaN when there is no digit there
parseInt(cs) ==
    LET signed == cs # << >> /\ Head(cs) \in {"-", "+"}
        body == IF signed THEN Tail(cs) ELSE cs
        n == LeadingDigits(body, 0)
    IN  IF body = << >> \/ ~IsDigit(Head(body)) THEN NaN
        ELSE Num(IF signed /\ Head(cs) = "-" THEN 0 - n ELSE n)

\* String.prototype.includes('/')
IncludesSlash(cs) == \E i \in DOMAIN cs : cs[i] = "/"

\* the text before the first '/', and the text after it
RECURSIVE BeforeSlash(_)
BeforeSlash(cs) ==
    IF cs = << >> \/ Head(cs) = "/" THEN << >>
    ELSE <<Head(cs)>> \o BeforeSlash(Tail(cs))

RECURSIVE AfterSlash(_)
AfterSlash(cs) ==
    IF cs = << >> THEN << >>
    ELSE IF Head(cs) = "/" THEN Tail(cs) ELSE AfterSlash(Tail(cs))

\* String.prototype.split('/', 2) of a text that includes '/'
splitSlash2(cs) == <<BeforeSlash(cs), BeforeSlash(AfterSlash(cs))>>

\* a KEY-STATE decoder that takes the flat index for x
decodeKey_NoWrap(dev, key) ==
    IF IsString(key) /\ IncludesSlash(Chars(key))
    THEN LET parts == splitSlash2(Chars(key))
         IN  [x |-> clampInt(parseInt(parts[2]), 0, dev.columns - 1, 0),
              y |-> clampInt(parseInt(parts[1]), 0, dev.rows - 1, 0)]
    ELSE LET keyIndex == clampInt(parseInt(Chars(key)), 0, dev.columns * dev.rows - 1, 0)
         IN  [x |-> keyIndex, y |-> keyIndex \div dev.columns]

\* a flat-index rule that divides by the number of rows
decodeIndex_ByRows(dev, cs) ==
    LET keyIndex == clampInt(parseInt(cs), 0, dev.columns * dev.rows - 1, 0)
    IN  [x |-> keyIndex % dev.rows, y |-> keyIndex \div dev.rows]

\* the flat-index rule of KEY-STATE: the text of KEY read as a row-major index
decodeIndex(dev, cs) ==
    LET keyIndex == clampInt(parseInt(cs), 0, dev.columns * dev.rows - 1, 0)
    IN  [x |-> keyIndex % dev.columns, y |-> keyIndex \div dev.columns]

\* the key a KEY-STATE line addresses on device `dev`
decodeKey(dev, key) ==
    IF IsString(key) /\ IncludesSlash(Chars(key))
    THEN LET parts == splitSlash2(Chars(key))
         IN  [x |-> clampInt(parseInt(parts[2]), 0, dev.columns - 1, 0),
              y |-> clampInt(parseInt(parts[1]), 0, dev.rows - 1, 0)]
    ELSE decodeIndex(dev, Chars(key))

\* Buffer.from(text, 'base64').toString('utf8') of the TEXT values a peer sends
Base64Text(s) ==
    CASE s = "QQ==" -> "A"
      [] OTHER      -> ""

\* `data:${detectImageMime(buf) || 'application/octet-stream'};base64,...` of
\* the BITMAP values a peer sends
ImageDataUrl(s) ==
    CASE s = "iVBORw==" -> "data:image/png;base64,iVBORw=="
      [] OTHER          -> "data:application/octet-stream;base64,"

\* `v || undefined`
OrUndefined(v) == IF v = "" THEN Absent ELSE v

\* the key state a KEY-STATE line carries
keyState(params) ==
    LET bitmap == Get(params, "BITMAP")
        text == Get(params, "TEXT")
        color == Get(params, "COLOR")
    IN  [text |-> IF IsString(text) /\ text # "" THEN OrUndefined(Base64Text(text))
                  ELSE Absent,
         bgColor |-> Absent,
         color |-> IF IsString(color) THEN OrUndefined(color) ELSE Absent,
         imageDataUrl |-> IF IsString(bitmap) /\ bitmap # "" THEN ImageDataUrl(bitmap)
                          ELSE Absent]

\* API.internalSurfaceDraw: the fields the draw carries replace those of the
\* cached key state, the others stay
internalSurfaceDraw(reg, surfaceId, x, y, state) ==
    IF surfaceId \notin DOMAIN reg THEN reg
    ELSE LET key == <<x, y>>
             old == IF key \in DOMAIN reg[surfaceId].keys
                    THEN reg[surfaceId].keys[key]
                    ELSE [f \in DOMAIN state |-> Absent]
             new == [f \in DOMAIN state |-> IF state[f] # Absent THEN state[f] ELSE old[f]]
         IN  [reg EXCEPT ![surfaceId].keys =
                 [k \in DOMAIN reg[surfaceId].keys \cup {key} |->
                     IF k = key THEN new ELSE reg[surfaceId].keys[k]]]

\* a KEY-STATE branch that draws on devices it does not know, as 8 by 4
handleKeyState_AnyDevice(w, line) ==
    LET deviceId == Get(line.params, "DEVICEID")
        dev == IF Has(w.devices, deviceId) THEN MapGet(w.devices, deviceId)
               ELSE [columns |-> 8, rows |-> 4]
        at == decodeKey(dev, Get(line.params, "KEY"))
        state == keyState(line.params)
        drawn == [w EXCEPT !.surfaces = internalSurfaceDraw(w.surfaces, deviceId,
                                                            at.x, at.y, state),
                           !.draws = Append(w.draws,
                                            [to |-> "registry", kind |-> "draw",
                                             id |-> deviceId, x |-> at.x, y |-> at.y,
                                             state |-> state])]
    IN  IF ~IsString(deviceId) \/ deviceId = "" THEN w
        ELSE IF deviceId \notin w.windows THEN drawn
        ELSE [drawn EXCEPT !.draws = Append(drawn.draws,
                                            [to |-> "window", kind |-> "draw",
                                             id |-> deviceId, x |-> at.x, y |-> at.y,
                                             state |-> state])]

\* the KEY-STATE branch of handleLine
handleKeyState(w, line) ==
    LET deviceId == Get(line.params, "DEVICEID")
        dev == MapGet(w.devices, deviceId)
        at == decodeKey(dev, Get(line.params, "KEY"))
        state == keyState(line.params)
        drawn == [w EXCEPT !.surfaces = internalSurfaceDraw(w.surfaces, deviceId,
                                                            at.x, at.y, state),
                           !.draws = Append(w.draws,
                                            [to |-> "registry", kind |-> "draw",
                                             id |-> deviceId, x |-> at.x, y |-> at.y,
                                             state |-> state])]
    IN  IF ~IsString(deviceId) \/ deviceId = "" THEN w
        ELSE IF ~Has(w.devices, deviceId) THEN w
        ELSE IF deviceId \notin w.windows THEN drawn
        ELSE [drawn EXCEPT !.draws = Append(drawn.draws,
                                            [to |-> "window", kind |-> "draw",
                                             id |-> deviceId, x |-> at.x, y |-> at.y,
                                             state |-> state])]

\* a keyPress that takes x and y as they come
keyPress_Unclamped(w, deviceId, x, y, pressed) ==
    IF ~Has(w.devices, deviceId) THEN w
    ELSE LET dev == MapGet(w.devices, deviceId)
             xi == IF x.nan THEN 0 ELSE x.n
             yi == IF y.nan THEN 0 ELSE y.n
             keyIndex == yi * dev.columns + xi
             sent == sendCommand(w, "KEY-PRESS",
                                 [DEVICEID |-> deviceId, KEY |-> keyIndex,
                                  PRESSED |-> pressed])
         IN  [sent EXCEPT !.draws = Append(sent.draws,
                                           [to |-> "registry", kind |-> "key",
                                            id |-> deviceId, x |-> xi, y |-> yi,
                                            action |-> IF pressed THEN "press"
                                                       ELSE "release"])]

\* keyPress(deviceId, x, y, pressed); API.internalSurfaceKey changes nothing
\* the bridge keeps of a surface
keyPress(w, deviceId, x, y, pressed) ==
    IF ~Has(w.devices, deviceId) THEN w
    ELSE LET dev == MapGet(w.devices, deviceId)
             xi == clampInt(x, 0, dev.columns - 1, 0)
             yi == clampInt(y, 0, dev.rows - 1, 0)
             keyIndex == yi * dev.columns + xi
             sent == sendCommand(w, "KEY-PRESS",
                                 [DEVICEID |-> deviceId, KEY |-> keyIndex,
                                  PRESSED |-> pressed])
         IN  [sent EXCEPT !.draws = Append(sent.draws,
                                           [to |-> "registry", kind |-> "key",
                                            id |-> deviceId, x |-> xi, y |-> yi,
                                            action |-> IF pressed THEN "press"
                                                       ELSE "release"])]

\* ipcMain.on('screendeck:key'): a payload without a string deviceId is dropped
onKey(w, payload) ==
    IF payload.deviceId = NotString \/ payload.deviceId = "" THEN w
    ELSE keyPress(w, payload.deviceId, payload.x, payload.y, payload.pressed)

handleLine(w, line) ==
    CASE line.cmd = "PING" -> sendLine(w, [cmd |-> "PONG", args |-> [body |-> line.body]])
      [] line.cmd = "PONG" -> w
      [] line.cmd = "KEYS-CLEAR" -> handleKeysClear(w, line)
      [] line.cmd = "KEY-STATE" -> handleKeyState(w, line)
      [] line.cmd = "BEGIN" -> handleBegin(w, line)
      [] line.cmd = "ADD-DEVICE" -> handleAddDevice(w, line)
      [] OTHER -> w

\* ------------------------------------------------------------------------
\* The state machine
\* ------------------------------------------------------------------------

Init ==
    /\ socket = "null"
    /\ connected = FALSE
    /\ connecting = FALSE
    /\ reconnectTimer = FALSE
    /\ lastBegin = << >>
    /\ devices = << >>
    /\ registeredDevices = {}
    /\ pendingDevices = {}
    /\ windows = {}
    /\ surfaces = << >>
    /\ timers = 0
    /\ closing = 0
    /\ out = << >>
    /\ dials = 0
    /\ op = [name |-> "new", line |-> NoLine]
    /\ pre = [pending |-> {}, registered |-> {}, begun |-> FALSE, timer |-> FALSE,
              socket |-> "null", carried |-> {}]
    /\ idle = FALSE
    /\ clears = << >>
    /\ carried = {}
    /\ draws = << >>
    /\ buffer = << >>
    /\ stream = << >>
    /\ dispatched = << >>
    /\ clients = {}
    /\ surfaceIdBySocketId = << >>
    /\ owned = {}
    /\ emits = << >>
    /\ ev = [name |-> "none", client |-> "", payload |-> << >>]
    /\ now = 0
    /\ codec = [fn |-> "none", arg |-> << >>, result |-> << >>]

\* the handler `name` ran and left the object and the runtime as `w`
Commit(w, name, line, nowIdle) ==
    /\ socket' = w.socket
    /\ connected' = w.connected
    /\ connecting' = w.connecting
    /\ reconnectTimer' = w.reconnectTimer
    /\ lastBegin' = w.lastBegin
    /\ devices' = w.devices
    /\ registeredDevices' = w.registeredDevices
    /\ pendingDevices' = w.pendingDevices
    /\ windows' = w.windows
    /\ surfaces' = w.surfaces
    /\ timers' = w.timers
    /\ closing' = w.closing
    /\ out' = w.out
    /\ dials' = w.dials
    /\ op' = [name |-> name, line |-> line]
    /\ pre' = [pending |-> pendingDevices, registered |-> registeredDevices,
               begun |-> lastBegin # << >>, timer |-> reconnectTimer,
               socket |-> socket, carried |-> carried]
    /\ idle' = nowIdle
    /\ clears' = w.clears
    /\ draws' = w.draws
    /\ carried' =
          CASE name \in {"error", "close", "staleclose"} ->
                   IF registeredDevices # {} THEN registeredDevices ELSE carried
            [] name \in {"config", "reconnect", "disconnect"} -> {}
            [] name = "data" /\ line.cmd = "BEGIN" -> {}
            [] OTHER -> carried
    /\ UNCHANGED <<frameVars, registryVars, codecVars>>

\* a caller may destroy the current socket only while the bound on sockets
\* that still owe their 'close' event leaves room for it
MayDestroy == socket \in Live => closing < MaxClosing

\* init() and the config.onDidChange('screenDeck') callback
ConfigChange ==
    /\ MayDestroy
    /\ \E cfg \in Configs, throws \in BOOLEAN :
          Commit(reconnect(reloadFromConfig(W, cfg), throws), "config",
                 [cfg |-> cfg, devices |-> Ids(devices), windows |-> windows], FALSE)

\* ipcMain.handle('screendeck:reconnect')
Reconnect ==
    /\ MayDestroy
    /\ \E throws \in BOOLEAN : Commit(reconnect(W, throws), "reconnect", NoLine, FALSE)

\* disconnect() called on the bridge from outside
Disconnect ==
    /\ MayDestroy
    /\ Commit(disconnect(W), "disconnect", NoLine, TRUE)

\* ipcMain.handle('screendeck:openAll')
OpenAllWindows ==
    /\ devices # << >>
    /\ Commit(openAllWindows(W), "openAll", NoLine, idle)

\* the user closes the window of a device
WindowClosed ==
    \E id \in windows : Commit(onWindowClosed(W, id), "closed", NoLine, idle)

\* The events of the current socket and the timer.  A destroyed socket emits
\* its 'close' in the loop iteration that destroyed it, which is before the
\* I/O of a socket created afterwards completes and before a timeout set
\* afterwards expires.
SocketConnect ==
    /\ socket = "connecting" /\ closing = 0
    /\ Commit([onConnect(W) EXCEPT !.socket = "open"], "connect", NoLine, idle)

SocketData ==
    /\ socket = "open" /\ closing = 0
    /\ \E line \in Lines : Commit(handleLine(W, line), "data", line, idle)

SocketError ==
    /\ socket \in {"connecting", "open"} /\ closing = 0
    /\ timers < MaxTimers
    /\ Commit([onError(W) EXCEPT !.socket = "errored"], "error", NoLine, idle)

SocketClose ==
    /\ socket \in {"open", "errored"} /\ closing = 0
    /\ timers < MaxTimers
    /\ Commit([onClose(W) EXCEPT !.socket = "closed"], "close", NoLine, idle)

\* the 'close' event of a socket that disconnect() destroyed
StaleClose ==
    /\ closing > 0
    /\ timers < MaxTimers
    /\ Commit([onClose(W) EXCEPT !.closing = closing - 1], "staleclose", NoLine, idle)

TimerFire ==
    /\ timers > 0 /\ closing = 0
    /\ \E throws \in BOOLEAN :
          Commit(onTimer([W EXCEPT !.timers = timers - 1], throws), "timer", NoLine, FALSE)

Next ==
    \/ ConfigChange
    \/ Reconnect
    \/ Disconnect
    \/ OpenAllWindows
    \/ WindowClosed
    \/ SocketConnect
    \/ SocketData
    \/ SocketError
    \/ SocketClose
    \/ StaleClose
    \/ TimerFire

Spec == Init /\ [][Next]_vars

\* ------------------------------------------------------------------------
\* Properties
\* ------------------------------------------------------------------------

\* the last handler was handleLine on a line with this verb
Handled(cmd) == op.name = "data" /\ op.line.cmd = cmd

\* how many ADD-DEVICE lines for device `id` the last handler wrote
AddsFor(id) ==
    Cardinality({i \in DOMAIN out : out[i].cmd = "ADD-DEVICE" /\ out[i].args.DEVICEID = id})

\* the last handler was a socket going down: 'error' or 'close', of the
\* current socket or of one destroyed earlier
SocketWentDown == op.name \in {"error", "close", "staleclose"}

\* C1: no device id is in the pending set and in the registered set at once.
C1_PendingRegisteredDisjoint == pendingDevices \cap registeredDevices = {}

\* an acknowledgment registered one device while another is still pending
C1_Witness ==
    /\ Handled("ADD-DEVICE")
    /\ registeredDevices # {} /\ pendingDevices # {}
    /\ registeredDevices \cap pre.pending # {}

\* C2: a socket 'error', a socket 'close' and an explicit disconnect() each
\* leave the pending set and the registered set empty and the peer
\* announcement cleared.
C2_DownClearsHandshake ==
    (SocketWentDown \/ op.name = "disconnect") =>
        /\ pendingDevices = {}
        /\ registeredDevices = {}
        /\ lastBegin = << >>

\* a 'close' found a registered device, a pending device and an announcement
C2_Witness ==
    /\ op.name = "close"
    /\ pre.registered # {} /\ pre.pending # {} /\ pre.begun

\* C3: at most one reconnection timeout is outstanding, the handle is set
\* exactly while it is; 'error' and 'close' events that find the timer set
\* leave that one timer and dial nothing, and the timer, when it fires,
\* dials exactly once and leaves no timer behind.
C3_ReconnectSingleton ==
    /\ timers <= 1
    /\ reconnectTimer <=> timers = 1
    /\ (SocketWentDown /\ pre.timer) => (timers = 1 /\ dials = 0)
    /\ SocketWentDown => dials = 0
    /\ op.name = "timer" => (dials = 1 /\ timers = 0)

\* the 'close' that follows an 'error' found the timer already set
C3_Witness ==
    /\ op.name = "close" /\ pre.socket = "errored" /\ pre.timer
    /\ reconnectTimer

\* C4 (as claimed): after an explicit disconnect(), until reconnect() is
\* called again, no reconnection timer is pending and there is no socket.
C4_DisconnectStaysDown ==
    idle => (~reconnectTimer /\ timers = 0 /\ socket = "null")

\* C5 (as claimed): with devices configured and no explicit disconnect(),
\* the bridge is never Disconnected without a reconnection outstanding.
C5_FailureIsRetried ==
    (devices # << >> /\ ~idle /\ ~connected /\ ~connecting) => reconnectTimer

\* C6: while no device is configured the bridge is Disconnected, has no
\* socket and no reconnection timer, and no handler dials, whatever events
\* of earlier sockets arrive.
C6_NoDevicesNoConnection ==
    devices = << >> =>
        /\ socket = "null"
        /\ ~connected /\ ~connecting
        /\ ~reconnectTimer /\ timers = 0
        /\ dials = 0

\* the 'close' of the socket that the reload to zero devices destroyed
C6_Witness ==
    /\ devices = << >>
    /\ op.name = "staleclose"

\* C7: a reconnection timer is outstanding only while a device is configured.
C7_TimerOnlyWithDevices ==
    (reconnectTimer \/ timers > 0) => devices # << >>

\* a reload to zero devices found the timer set
C7_Witness ==
    /\ op.name = "config" /\ pre.timer
    /\ devices = << >>

C9_RegistrationIdempotent ==
    Handled("BEGIN") =>
        \A id \in Ids(devices) :
            /\ id \in pre.pending => (AddsFor(id) = 0 /\ id \in pendingDevices
                                       /\ id \notin registeredDevices)
            /\ id \in pre.registered => (AddsFor(id) = 0 /\ id \in registeredDevices
                                          /\ id \notin pendingDevices)
            /\ AddsFor(id) <= 1

\* a second BEGIN arrived while a configured device was still pending
C9_Witness ==
    /\ Handled("BEGIN")
    /\ pre.pending \cap Ids(devices) # {}

\* the acknowledgment carries success: OK as a bare flag or OK=1
AckOk(params) == "OK" \in DOMAIN params /\ params["OK"] \in {Flag, "1"}

\* the acknowledgment carries an ERROR flag (an ERROR parameter with an
\* empty value flags nothing)
AckError(params) == "ERROR" \in DOMAIN params /\ params["ERROR"] # ""

\* C10: an acknowledgment for a pending device takes it out of pending, and
\* puts it into registered exactly when it carries OK and no ERROR flag.
C10_AckSettlesPending ==
    Handled("ADD-DEVICE") =>
        \A id \in pre.pending :
            Get(op.line.params, "DEVICEID") = id =>
                /\ id \notin pendingDevices
                /\ id \in registeredDevices <=>
                      (AckOk(op.line.params) /\ ~AckError(op.line.params))

\* an acknowledgment with OK=1 and an ERROR flag dropped a pending device
C10_Witness ==
    /\ Handled("ADD-DEVICE")
    /\ Get(op.line.params, "DEVICEID") \in pre.pending
    /\ AckOk(op.line.params) /\ AckError(op.line.params)
    /\ Get(op.line.params, "DEVICEID") \notin registeredDevices

\* C11 (as claimed): an ADD-DEVICE acknowledgment that names a device id
\* which is not configured is ignored: the pending set and the registered
\* set are what they were before the line.
C11_UnknownAckIgnored ==
    (Handled("ADD-DEVICE") /\ Get(op.line.params, "DEVICEID") \notin Ids(devices)) =>
        /\ pendingDevices = pre.pending
        /\ registeredDevices = pre.registered

\* C13 (as claimed): a KEYS-CLEAR whose DEVICEID is not a configured device
\* is ignored: the Surface Registry is not told to clear anything and no
\* device window is notified.
C13_UnknownClearIgnored ==
    (Handled("KEYS-CLEAR") /\ Get(op.line.params, "DEVICEID") \notin Ids(devices)) =>
        clears = << >>

\* C12 (as claimed): after a socket 'close' has emptied the handshake sets,
\* the next BEGIN received writes one ADD-DEVICE for every configured
\* device, the devices that were registered before the close included.
C12_BeginRestartsRegistration ==
    (Handled("BEGIN") /\ pre.carried # {}) =>
        \A id \in Ids(devices) : AddsFor(id) = 1

\* what a handler leaves behind: the object and the event loop, without the
\* record of what the handler itself wrote and dialled
Settled(w) == [w EXCEPT !.out = << >>, !.dials = 0, !.clears = << >>]

\* C14 (as claimed): reconnect() is idempotent: two consecutive reconnect()
\* calls leave the bridge and the event loop as one call does, with the
\* same connection attempts outstanding.
C14_ReconnectIdempotent ==
    \A throws \in BOOLEAN :
        Settled(reconnect(reconnect(W, throws), throws)) = Settled(reconnect(W, throws))

\* ------------------------------------------------------------------------
\* The frame splitter: the 'data' handler of the socket and handleData
\* ------------------------------------------------------------------------

\* most bytes the peer sends between two resets of the buffer
MaxStream == 4
\* most bytes of one 'data' event
MaxChunk == 3

\* bytes on the wire: "a", line feed, carriage return, and the two bytes
\* C3 A9 that encode the character "e-acute" in UTF-8
Bytes == {"a", "LF", "CR", "C3", "A9"}

\* the 'data' events a socket may deliver
Chunks == UNION { [1..n -> Bytes] : n \in 1..MaxChunk }

\* data.toString('utf8'): a complete C3 A9 pair is one character; a lead
\* byte without its continuation and a continuation byte without its lead
\* each become the replacement character U+FFFD
RECURSIVE toStringUtf8(_)
toStringUtf8(data) ==
    IF data = << >> THEN << >>
    ELSE IF Head(data) = "C3" /\ Len(data) >= 2 /\ data[2] = "A9"
         THEN <<"e-acute">> \o toStringUtf8(Tail(Tail(data)))
    ELSE IF Head(data) \in {"C3", "A9"}
         THEN <<"U+FFFD">> \o toStringUtf8(Tail(data))
    ELSE <<Head(data)>> \o toStringUtf8(Tail(data))

\* String.prototype.indexOf('\n'), counted from 1; 0 when there is none
indexOfLF(s) ==
    IF \E i \in DOMAIN s : s[i] = "LF"
    THEN CHOOSE i \in DOMAIN s : s[i] = "LF" /\ \A j \in 1..(i - 1) : s[j] # "LF"
    ELSE 0

\* the while loop of handleData: the buffer that is left and the lines
\* handed to handleLine, in order
RECURSIVE splitLoop(_, _)
splitLoop(buf, lines) ==
    LET idx == indexOfLF(buf)
        line == SubSeq(buf, 1, idx - 1)
        rest == SubSeq(buf, idx + 1, Len(buf))
        bare == IF line # << >> /\ line[Len(line)] = "CR"
                THEN SubSeq(line, 1, Len(line) - 1) ELSE line
    IN  IF idx = 0 THEN [buffer |-> buf, lines |-> lines]
        ELSE splitLoop(rest, IF bare # << >> THEN Append(lines, bare) ELSE lines)

handleData(buf, chunk) == splitLoop(buf \o chunk, << >>)

\* socket.on('data'): one chunk arrives
DataChunk ==
    /\ \E data \in Chunks :
          /\ Len(stream) + Len(data) <= MaxStream
          /\ LET r == handleData(buffer, toStringUtf8(data))
             IN  /\ buffer' = r.buffer
                 /\ dispatched' = dispatched \o r.lines
          /\ stream' = stream \o data
    /\ UNCHANGED <<bridgeVars, surfaces, registryVars, codecVars>>

\* `this.buffer = ''` of the 'connect' handler and of disconnect()
BufferReset ==
    /\ stream # << >>
    /\ buffer' = << >>
    /\ stream' = << >>
    /\ dispatched' = << >>
    /\ UNCHANGED <<bridgeVars, surfaces, registryVars, codecVars>>

NextFrames == DataChunk \/ BufferReset

SpecFrames == Init /\ [][NextFrames]_vars

\* the text between the line feeds of `text`, in order: the segments that a
\* line feed ends
RECURSIVE Segments(_, _)
Segments(text, from) ==
    LET ends == {i \in from..Len(text) : text[i] = "LF"}
        first == CHOOSE i \in ends : \A j \in ends : i <= j
    IN  IF ends = {} THEN << >>
        ELSE <<SubSeq(text, from, first - 1)>> \o Segments(text, first + 1)

\* a segment without its one trailing carriage return
Stripped(seg) ==
    IF seg # << >> /\ seg[Len(seg)] = "CR" THEN SubSeq(seg, 1, Len(seg) - 1) ELSE seg

\* the lines the claim expects of a stream
ExpectedLines(bytes) ==
    LET segs == Segments(toStringUtf8(bytes), 1)
    IN  SelectSeq([i \in DOMAIN segs |-> Stripped(segs[i])], LAMBDA l : l # << >>)

\* C15 (as claimed): whatever bytes arrived and however they were cut into
\* chunks, the lines dispatched so far are the newline-terminated segments
\* of the stream, in order, each without one trailing carriage return, the
\* empty ones left out; an unterminated tail has dispatched nothing.
C15_FrameSplitting == dispatched = ExpectedLines(stream)

\* ------------------------------------------------------------------------
\* The Surface Registry of api.js and its socket.io subscribers
\* ------------------------------------------------------------------------

\* latest value of Date.now()
MaxClock == 1
\* most key-cache entries the registry holds at one time
MaxKeys == 1

\* the socket.io connections (socket.id)
Clients == {"s1"}

\* a surface id of 65 characters
LongId == "aaaaaaaaaaaaaaaaaaaaaaaaaaaaaaaaaaaaaaaaaaaaaaaaaaaaaaaaaaaaaaaaa"

\* what an event may carry as surfaceId
SurfaceIdInputs == {"dev1", " dev2 ", "bad id", "", LongId, NotString}

\* /^[a-zA-Z0-9_-]{1,64}$/.test(s), on the trimmed strings of the model
MatchesIdRule(s) == s \in {"dev1", "dev2"}

\* a sanitizeSurfaceId that does not apply the regular expression
sanitizeSurfaceId_NoRule(value) ==
    IF value = NotString THEN Absent
    ELSE IF Trim(value) = "" THEN Absent
    ELSE Trim(value)

\* null when the value is refused, else the trimmed id
sanitizeSurfaceId(value) ==
    IF value = NotString THEN Absent
    ELSE IF Trim(value) = "" THEN Absent
    ELSE IF ~MatchesIdRule(Trim(value)) THEN Absent
    ELSE Trim(value)

\* The clampInt in effect in api.js.  The module declares clampInt twice,
\* with three parameters and later with four; the later declaration
\* replaces the earlier one, so the three-argument calls of the surface
\* handlers run the four-parameter body with `fallback` undefined.  An
\* undefined result is written NaN, as are undefined bounds (undefined - 1).
apiClampInt(value, min, max) ==
    IF value.nan THEN NaN
    ELSE IF ~min.nan /\ value.n < min.n THEN min
    ELSE IF ~max.nan /\ value.n > max.n THEN max
    ELSE value

\* surface.columns - 1
MinusOne(v) == IF v.nan THEN NaN ELSE Num(v.n - 1)

\* the registry with what a handler emitted
R == [surfaces |-> surfaces, surfaceIdBySocketId |-> surfaceIdBySocketId,
      emits |-> << >>]

\* Map.prototype.get, with Absent for undefined
SocketSurface(m, c) == IF c \in DOMAIN m THEN m[c] ELSE Absent

surfacesSnapshot(reg) == reg

broadcastSurfaces(r) ==
    [r EXCEPT !.emits = Append(r.emits, [to |-> "all", event |-> "surfaces",
                                         data |-> surfacesSnapshot(r.surfaces)])]

\* the register events a subscriber may send (null included)
NoInfo == [null |-> TRUE, surfaceId |-> NotString, columns |-> NaN, rows |-> NaN]
Infos ==
    { [null |-> FALSE, surfaceId |-> id, columns |-> Num(2), rows |-> Num(1)] :
        id \in SurfaceIdInputs \ {" dev2 "} }
    \cup
    { [null |-> FALSE, surfaceId |-> " dev2 ", columns |-> NaN, rows |-> Num(40)],
      NoInfo }

\* socket.on('surface_register'); the event names no name, product or host
surface_register(r, c, info, time) ==
    LET surfaceId == sanitizeSurfaceId(info.surfaceId)
        surface == [surfaceId |-> surfaceId, name |-> surfaceId, product |-> Absent,
                    host |-> "address of the subscriber",
                    columns |-> apiClampInt(info.columns, Num(1), Num(32)),
                    rows |-> apiClampInt(info.rows, Num(1), Num(32)),
                    connectedAt |-> time, lastSeen |-> time, keys |-> NoKeys]
    IN  IF surfaceId = Absent
        THEN [r EXCEPT !.emits = Append(r.emits, [to |-> c, event |-> "surface_error"])]
        ELSE broadcastSurfaces(
                 [r EXCEPT !.surfaceIdBySocketId =
                               [k \in DOMAIN r.surfaceIdBySocketId \cup {c} |->
                                   IF k = c THEN surfaceId ELSE r.surfaceIdBySocketId[k]],
                           !.surfaces =
                               [id \in DOMAIN r.surfaces \cup {surfaceId} |->
                                   IF id = surfaceId THEN surface ELSE r.surfaces[id]],
                           !.emits = Append(r.emits, [to |-> c, event |-> "surface_registered",
                                                      surfaceId |-> surfaceId])])

\* the draw and key events a subscriber may send (null included)
NoPayload == [null |-> TRUE, surfaceId |-> NotString, x |-> NaN, y |-> NaN,
              text |-> NotString, bgColor |-> NotString, color |-> NotString,
              imageBase64 |-> NotString, action |-> NotString]
Payloads ==
    { [null |-> FALSE, surfaceId |-> id, x |-> p[1], y |-> p[2],
       text |-> p[3], bgColor |-> p[4], color |-> NotString,
       imageBase64 |-> NotString, action |-> NotString] :
        id \in {"dev1", " dev2 ", "bad id", NotString},
        p \in {<<Num(1), Num(0), "A", NotString>>,
               <<Num(1), Num(0), NotString, "red">>,
               <<Num(7), NaN, "A", NotString>>,
               <<Num(7), NaN, NotString, NotString>>,
               <<NaN, Num(0), NotString, NotString>>} }
    \cup {NoPayload}

\* the key events: the draw events that carry no key state
KeyPayloads == {p \in Payloads : p.text = NotString /\ p.bgColor = NotString}

\* typeof v === 'string' ? v : undefined
StringOrUndefined(v) == IF v = NotString THEN Absent ELSE v

\* { ...a, ...b }: every property b has, defined or not, replaces that of a
Spread(a, b) ==
    [f \in DOMAIN a \cup DOMAIN b |-> IF f \in DOMAIN b THEN b[f] ELSE a[f]]

\* `sanitizeSurfaceId(payload && payload.surfaceId) || surfaceIdBySocketId.get(socket.id)`
Addressed(r, c, payload) ==
    IF sanitizeSurfaceId(payload.surfaceId) # Absent
    THEN sanitizeSurfaceId(payload.surfaceId)
    ELSE SocketSurface(r.surfaceIdBySocketId, c)

\* socket.on('surface_draw'); reading payload.x of a null payload throws,
\* and the handler swallows the exception
surface_draw(r, c, payload, time) ==
    LET surfaceId == Addressed(r, c, payload)
        surface == r.surfaces[surfaceId]
        x == apiClampInt(payload.x, Num(0), MinusOne(surface.columns))
        y == apiClampInt(payload.y, Num(0), MinusOne(surface.rows))
        key == <<x, y>>
        nextState == [text |-> StringOrUndefined(payload.text),
                      bgColor |-> StringOrUndefined(payload.bgColor),
                      color |-> StringOrUndefined(payload.color),
                      imageBase64 |-> StringOrUndefined(payload.imageBase64)]
        old == IF key \in DOMAIN surface.keys THEN surface.keys[key] ELSE << >>
        state == Spread(old, nextState)
        keys == [k \in DOMAIN surface.keys \cup {key} |->
                    IF k = key THEN state ELSE surface.keys[k]]
    IN  IF surfaceId = Absent THEN r
        ELSE IF surfaceId \notin DOMAIN r.surfaces THEN r
        ELSE IF payload.null THEN r
        ELSE [r EXCEPT !.surfaces[surfaceId].keys = keys,
                       !.surfaces[surfaceId].lastSeen = time,
                       !.emits = Append(r.emits, [to |-> "all", event |-> "surface_draw",
                                                  surfaceId |-> surfaceId, x |-> x, y |-> y,
                                                  state |-> state])]

\* a key handler that stores the action in the key cache
surface_key_Cached(r, c, payload, time) ==
    LET surfaceId == Addressed(r, c, payload)
        surface == r.surfaces[surfaceId]
        x == apiClampInt(payload.x, Num(0), MinusOne(surface.columns))
        y == apiClampInt(payload.y, Num(0), MinusOne(surface.rows))
        action == IF payload.action = NotString THEN "press" ELSE payload.action
        keys == [k \in DOMAIN surface.keys \cup {<<x, y>>} |->
                    [text |-> action, bgColor |-> Absent, color |-> Absent,
                     imageBase64 |-> Absent]]
    IN  IF surfaceId = Absent THEN r
        ELSE IF surfaceId \notin DOMAIN r.surfaces THEN r
        ELSE IF payload.null THEN r
        ELSE [r EXCEPT !.surfaces[surfaceId].keys = keys,
                       !.surfaces[surfaceId].lastSeen = time,
                       !.emits = Append(r.emits, [to |-> "all", event |-> "surface_key",
                                                  surfaceId |-> surfaceId, x |-> x, y |-> y,
                                                  action |-> action])]

\* socket.on('surface_key')
surface_key(r, c, payload, time) ==
    LET surfaceId == Addressed(r, c, payload)
        surface == r.surfaces[surfaceId]
        x == apiClampInt(payload.x, Num(0), MinusOne(surface.columns))
        y == apiClampInt(payload.y, Num(0), MinusOne(surface.rows))
        action == IF payload.action = NotString THEN "press" ELSE payload.action
    IN  IF surfaceId = Absent THEN r
        ELSE IF surfaceId \notin DOMAIN r.surfaces THEN r
        ELSE IF payload.null THEN r
        ELSE [r EXCEPT !.surfaces[surfaceId].lastSeen = time,
                       !.emits = Append(r.emits, [to |-> "all", event |-> "surface_key",
                                                  surfaceId |-> surfaceId, x |-> x, y |-> y,
                                                  action |-> action])]

\* socket.on('disconnect')
onDisconnect(r, c) ==
    LET surfaceId == SocketSurface(r.surfaceIdBySocketId, c)
    IN  IF surfaceId = Absent THEN r
        ELSE broadcastSurfaces(
                 [r EXCEPT !.surfaceIdBySocketId =
                               [k \in DOMAIN r.surfaceIdBySocketId \ {c} |->
                                   r.surfaceIdBySocketId[k]],
                           !.surfaces =
                               [id \in DOMAIN r.surfaces \ {surfaceId} |-> r.surfaces[id]]])

\* key-cache entries of the surfaces `ids` of a registry
RECURSIVE KeyCount(_, _)
KeyCount(reg, ids) ==
    IF ids = {} THEN 0
    ELSE LET id == CHOOSE i \in ids : TRUE
         IN  Cardinality(DOMAIN reg[id].keys) + KeyCount(reg, ids \ {id})

\* the handler of event `name` ran for connection `c` and left `r`; `own` is
\* who owns which surface afterwards
CommitRegistry(r, name, c, payload, own, open) ==
    /\ KeyCount(r.surfaces, DOMAIN r.surfaces) <= MaxKeys
    /\ surfaces' = r.surfaces
    /\ surfaceIdBySocketId' = r.surfaceIdBySocketId
    /\ emits' = r.emits
    /\ clients' = open
    /\ owned' = own
    /\ ev' = [name |-> name, client |-> c, payload |-> payload]
    /\ UNCHANGED <<now, bridgeVars, frameVars, codecVars>>

\* io.sockets.on('connection')
ClientConnect ==
    \E c \in Clients \ clients :
        CommitRegistry([R EXCEPT !.emits = <<[to |-> c, event |-> "control_status"]>>],
                       "connection", c, NoPayload, owned, clients \cup {c})

\* a register that succeeds makes the connection the owner of the surface
SurfaceRegister ==
    \E c \in clients, info \in Infos :
        LET id == sanitizeSurfaceId(info.surfaceId)
        IN  CommitRegistry(surface_register(R, c, info, now), "surface_register", c, info,
                           IF id = Absent THEN owned
                           ELSE {o \in owned : o[2] # id} \cup {<<c, id>>},
                           clients)

SurfaceDraw ==
    \E c \in clients, payload \in Payloads :
        CommitRegistry(surface_draw(R, c, payload, now), "surface_draw", c, payload,
                       owned, clients)

SurfaceKey ==
    \E c \in clients, payload \in KeyPayloads :
        CommitRegistry(surface_key(R, c, payload, now), "surface_key", c, payload,
                       owned, clients)

ClientDisconnect ==
    \E c \in clients :
        CommitRegistry(onDisconnect(R, c), "disconnect", c, NoPayload,
                       {o \in owned : o[1] # c}, clients \ {c})

\* time passes
Tick ==
    /\ now < MaxClock
    /\ now' = now + 1
    /\ UNCHANGED <<bridgeVars, frameVars, codecVars, surfaces, clients, surfaceIdBySocketId,
                   owned, emits, ev>>

NextSurfaces ==
    \/ ClientConnect
    \/ SurfaceRegister
    \/ SurfaceDraw
    \/ SurfaceKey
    \/ ClientDisconnect
    \/ Tick

SpecSurfaces == Init /\ [][NextSurfaces]_vars

\* the last event handled was `name` and its handler emitted something
Emitted(name) == ev.name = name /\ emits # << >>

\* the fields of a key state
StateFields == {"text", "bgColor", "color", "imageBase64"}

\* C16 (as claimed): after a draw on a key, every field of the key state
\* that the event carries has the event's value and every field the event
\* does not carry has the value it had before the draw.
C16_DrawMerges ==
    [][ (ev'.name = "surface_draw" /\ emits' # << >>) =>
            LET id == emits'[1].surfaceId
                key == <<emits'[1].x, emits'[1].y>>
                old == surfaces[id].keys
                new == surfaces'[id].keys[key]
            IN  \A f \in StateFields :
                    IF ev'.payload[f] # NotString
                    THEN new[f] = ev'.payload[f]
                    ELSE new[f] = IF key \in DOMAIN old THEN old[key][f] ELSE Absent ]_vars

\* C17 (as claimed): no surface is in the registry after the connection
\* that registered it has terminated, and the termination of a connection
\* that lost a surface broadcasts the registry as it then is.
C17_NoSurfaceOutlivesOwner ==
    /\ \A id \in DOMAIN surfaces : \E o \in owned : o[2] = id /\ o[1] \in clients
    /\ Emitted("disconnect") => emits[1].data = surfaces

\* the regular expression applied to the value as the event carries it
IsSurfaceId(value) == value # NotString /\ MatchesIdRule(value)

\* the register that `ev` records was refused: an error to the sender alone
Refused == emits = <<[to |-> ev.client, event |-> "surface_error"]>>

\* the register that `ev` records put surface `id` into the registry and
\* into the snapshot it broadcast
Registered(id) ==
    /\ id \in DOMAIN surfaces
    /\ surfaces[id].keys = NoKeys
    /\ Len(emits) = 2
    /\ emits[1] = [to |-> ev.client, event |-> "surface_registered", surfaceId |-> id]
    /\ emits[2].event = "surfaces" /\ emits[2].to = "all"
    /\ id \in DOMAIN emits[2].data

\* the register succeeded under the id as the event carries it
RegisteredAsSent == Registered(ev.payload.surfaceId)

\* the register succeeded under the id without the white space around it
RegisteredTrimmed == Registered(Trim(ev.payload.surfaceId))

\* C18 (as claimed): a register whose surfaceId is not 1 to 64 characters of
\* [A-Za-z0-9_-] is refused and leaves the registry as it was; a register
\* with such an id succeeds and the surface is in the snapshot broadcast.
C18_RegisterValidatesId ==
    [][ ev'.name = "surface_register" =>
            IF IsSurfaceId(ev'.payload.surfaceId)
            THEN RegisteredAsSent'
            ELSE Refused' /\ surfaces' = surfaces
                          /\ surfaceIdBySocketId' = surfaceIdBySocketId ]_vars

\* C18 (amended): the rule is applied to the surfaceId with the white space
\* around it removed. A register whose trimmed surfaceId is not 1 to 64
\* characters of [A-Za-z0-9_-] (or is no string) is refused and leaves the
\* registry as it was; any other register succeeds under the trimmed id and
\* the surface is in the snapshot broadcast.
C18_RegisterValidatesTrimmedId ==
    [][ ev'.name = "surface_register" =>
            IF ev'.payload.surfaceId # NotString /\ IsSurfaceId(Trim(ev'.payload.surfaceId))
            THEN RegisteredTrimmed'
            ELSE Refused' /\ surfaces' = surfaces
                          /\ surfaceIdBySocketId' = surfaceIdBySocketId ]_vars

\* a register with an id of 65 characters was refused while the registry
\* held a surface
C18_Witness ==
    /\ ev.name = "surface_register" /\ ev.payload.surfaceId = LongId
    /\ Refused
    /\ DOMAIN surfaces # {}

\* C19 (as claimed): a draw or key event that carries a surfaceId which
\* fails the rule changes no surface and broadcasts nothing, also when the
\* sending connection has registered a surface itself.
C19_InvalidIdRejected ==
    [][ ( /\ ev'.name \in {"surface_draw", "surface_key"}
          /\ ev'.payload.surfaceId # NotString
          /\ sanitizeSurfaceId(ev'.payload.surfaceId) = Absent ) =>
            (surfaces' = surfaces /\ emits' = << >>) ]_vars

\* C20 (as claimed): every entry of every key cache lies within the grid of
\* its surface: 0 <= x <= columns - 1 and 0 <= y <= rows - 1.
C20_KeysWithinGrid ==
    \A id \in DOMAIN surfaces :
        \A key \in DOMAIN surfaces[id].keys :
            /\ ~key[1].nan /\ ~surfaces[id].columns.nan
            /\ key[1].n \in 0..(surfaces[id].columns.n - 1)
            /\ ~key[2].nan /\ ~surfaces[id].rows.nan
            /\ key[2].n \in 0..(surfaces[id].rows.n - 1)

\* C21: the handler of a key event (a step in which no time passes) leaves
\* the set of registered surfaces and every key cache as they were. When
\* it addresses a surface of the registry it sets lastSeen of that surface,
\* changes nothing else and broadcasts exactly one surface_key event for
\* that surface; otherwise it changes and broadcasts nothing.
C21_KeyIsEphemeral ==
    [][ (ev'.name = "surface_key" /\ now' = now) =>
            LET id == Addressed(R, ev'.client, ev'.payload)
            IN  /\ DOMAIN surfaces' = DOMAIN surfaces
                /\ \A s \in DOMAIN surfaces : surfaces'[s].keys = surfaces[s].keys
                /\ IF id \in DOMAIN surfaces /\ ~ev'.payload.null
                   THEN /\ surfaces' = [surfaces EXCEPT ![id].lastSeen = now]
                        /\ Len(emits') = 1
                        /\ emits'[1].event = "surface_key" /\ emits'[1].to = "all"
                        /\ emits'[1].surfaceId = id
                   ELSE surfaces' = surfaces /\ emits' = << >> ]_vars

\* a key event reached a surface that has a key drawn, later than the
\* surface was registered
C21_Witness ==
    /\ Emitted("surface_key")
    /\ LET s == surfaces[emits[1].surfaceId]
       IN  s.keys # NoKeys /\ s.lastSeen = now /\ s.connectedAt < now

\* ------------------------------------------------------------------------
\* Key traffic of the bridge: per-key updates from the peer, key events from
\* the device windows
\* ------------------------------------------------------------------------

\* the KEY values of the per-key updates a peer sends
KeyValues == {"5", "3", "99", "-3", "2x", "1/1", "0/1", "9/0", "0/9", "x/1", "1/",
              "0/1/9", Flag, Absent}

\* the KEY values that spell "row/col", with the row and the column they
\* spell, and those that spell one flat index, with that index
RowColKeys == {"1/1", "0/1", "9/0", "0/9"}
RowOf(key) == CASE key = "1/1" -> 1 [] key = "0/1" -> 0 [] key = "9/0" -> 9 [] key = "0/9" -> 0
ColOf(key) == CASE key = "1/1" -> 1 [] key = "0/1" -> 1 [] key = "9/0" -> 0 [] key = "0/9" -> 9
FlatKeys == {"5", "3", "99", "-3"}
IndexOf(key) == CASE key = "5" -> 5 [] key = "3" -> 3 [] key = "99" -> 99 [] key = "-3" -> 0 - 3

\* TEXT, BITMAP and COLOR of the per-key updates a peer sends
KeyStates == { <<Absent, Absent, Absent>>, <<"QQ==", Absent, "#ff0000">>,
               <<Absent, "iVBORw==", Absent>> }

KeyParams(id, key, st) ==
    LET val == [k \in {"DEVICEID", "KEY", "TEXT", "BITMAP", "COLOR"} |->
                   CASE k = "DEVICEID" -> id [] k = "KEY" -> key [] k = "TEXT" -> st[1]
                     [] k = "BITMAP" -> st[2] [] OTHER -> st[3]]
    IN  [k \in {x \in DOMAIN val : val[x] # Absent} |-> val[k]]

\* the KEY-STATE lines a peer sends
KeyLines ==
    { [cmd |-> "KEY-STATE", body |-> "", params |-> KeyParams("dev1", key, <<Absent, Absent, Absent>>)] :
        key \in KeyValues }
    \cup
    { [cmd |-> "KEY-STATE", body |-> "", params |-> KeyParams("dev2", key, <<Absent, Absent, Absent>>)] :
        key \in {"5", "99", "0/9"} }
    \cup
    { [cmd |-> "KEY-STATE", body |-> "", params |-> KeyParams(id, "0/1", st)] :
        id \in {"dev1", "devX", Absent, Flag, ""}, st \in KeyStates }

\* the payloads of 'screendeck:key' a device window sends
KeyEvents ==
    { [deviceId |-> id, x |-> at[1], y |-> at[2], pressed |-> pressed] :
        id \in {"dev1", "dev2", "devX", NotString},
        at \in {<<Num(1), Num(0)>>, <<Num(9), Num(1)>>, <<NaN, Num(-1)>>},
        pressed \in BOOLEAN }

\* a KEY-STATE line arrives on the open socket
KeyState ==
    /\ socket = "open" /\ closing = 0
    /\ \E line \in KeyLines :
          /\ KeyCount(handleLine(W, line).surfaces, DOMAIN surfaces) <= MaxKeys
          /\ Commit(handleLine(W, line), "data", line, idle)

\* ipcMain.on('screendeck:key')
KeyPress ==
    \E payload \in KeyEvents : Commit(onKey(W, payload), "key", payload, idle)

NextKeys ==
    \/ ConfigChange
    \/ OpenAllWindows
    \/ SocketConnect
    \/ StaleClose
    \/ KeyState
    \/ KeyPress

SpecKeys == Init /\ [][NextKeys]_vars

\* n clamped into lo..hi
Clamped(n, lo, hi) == IF n < lo THEN lo ELSE IF n > hi THEN hi ELSE n

\* C22: a per-key update for a configured device addresses, for a KEY
\* "row/col", y = row clamped into 0..rows-1 and x = col clamped into
\* 0..columns-1, and for a KEY that is a flat index, that index clamped into
\* 0..columns*rows-1, as x = index mod columns and y = index div columns; for
\* every KEY the addressed (x, y) is inside the grid of the device.
C22_KeyAddressing ==
    (Handled("KEY-STATE") /\ Has(devices, Get(op.line.params, "DEVICEID"))) =>
        LET dev == MapGet(devices, Get(op.line.params, "DEVICEID"))
            key == Get(op.line.params, "KEY")
            index == Clamped(IndexOf(key), 0, dev.columns * dev.rows - 1)
        IN  /\ draws # << >>
            /\ \A i \in DOMAIN draws :
                  /\ draws[i].x \in 0..(dev.columns - 1)
                  /\ draws[i].y \in 0..(dev.rows - 1)
                  /\ key \in RowColKeys =>
                        /\ draws[i].y = Clamped(RowOf(key), 0, dev.rows - 1)
                        /\ draws[i].x = Clamped(ColOf(key), 0, dev.columns - 1)
                  /\ key \in FlatKeys =>
                        /\ draws[i].x = index % dev.columns
                        /\ draws[i].y = index \div dev.columns

\* the flat index 3 of a device of two columns is the key (1, 1)
C22_Witness ==
    /\ Handled("KEY-STATE") /\ Get(op.line.params, "KEY") = "3"
    /\ draws # << >> /\ draws[1].id = "dev1"
    /\ MapGet(devices, "dev1").columns = 2
    /\ draws[1].x = 1 /\ draws[1].y = 1

\* the key a key event of a device window addresses once clamped into the
\* grid of its device, and the notification the registry is to get for it
PressedAt ==
    LET dev == MapGet(devices, op.line.deviceId)
    IN  [x |-> IF op.line.x.nan THEN 0 ELSE Clamped(op.line.x.n, 0, dev.columns - 1),
         y |-> IF op.line.y.nan THEN 0 ELSE Clamped(op.line.y.n, 0, dev.rows - 1),
         columns |-> dev.columns, rows |-> dev.rows]

RegistryNotified ==
    draws = <<[to |-> "registry", kind |-> "key", id |-> op.line.deviceId,
               x |-> PressedAt.x, y |-> PressedAt.y,
               action |-> IF op.line.pressed THEN "press" ELSE "release"]>>

KeyPressWritten ==
    /\ out = <<[cmd |-> "KEY-PRESS",
                args |-> [DEVICEID |-> op.line.deviceId,
                          KEY |-> PressedAt.y * PressedAt.columns + PressedAt.x,
                          PRESSED |-> op.line.pressed]]>>
    /\ out[1].args.KEY \in 0..(PressedAt.columns * PressedAt.rows - 1)

\* C23 (as claimed): a key event for a configured device writes one KEY-PRESS
\* with the index y'*columns + x' of the clamped key, an index of the grid,
\* and notifies the registry with the same (x', y'); a key event for an unknown
\* device writes nothing and notifies nothing.
C23_KeyPressEmits ==
    op.name = "key" =>
        IF Has(devices, op.line.deviceId)
        THEN KeyPressWritten /\ RegistryNotified
        ELSE out = << >> /\ draws = << >>

\* C23 (amended): the KEY-PRESS is written while the bridge is connected;
\* while it is not, nothing is written and the registry is notified all the
\* same.
C23_KeyPressEmitsWhileConnected ==
    op.name = "key" =>
        IF Has(devices, op.line.deviceId)
        THEN /\ RegistryNotified
             /\ IF connected /\ socket # "null" THEN KeyPressWritten ELSE out = << >>
        ELSE out = << >> /\ draws = << >>

\* a press at column 9 of a connected device of two columns goes out as the
\* key (1, 1), index 3
C23_Witness ==
    /\ op.name = "key" /\ connected
    /\ op.line.deviceId = "dev1" /\ op.line.x = Num(9) /\ op.line.y = Num(1)
    /\ out # << >> /\ out[1].args.KEY = 3
    /\ draws[1].x = 1 /\ draws[1].y = 1

\* ------------------------------------------------------------------------
\* Command codec: splitTokensPreservingQuotes, parseParams, sendCommand
\* ------------------------------------------------------------------------

\* longest body the tokenizer is given, in characters
MaxBody == 5

\* the characters of a body: a letter, the separators and the two marks
BodyChars == {"a", "=", " ", "\"", "\\"}

\* the body of the line  A B="x y" C
ExampleBody == <<"A", " ", "B", "=", "\"", "x", " ", "y", "\"", " ", "C">>

Bodies == UNION { [1..n -> BodyChars] : n \in 0..MaxBody } \cup {ExampleBody}

\* `if (cur) tokens.push(cur)`
Push(tokens, cur) == IF cur = << >> THEN tokens ELSE Append(tokens, cur)

\* a tokenizer that keeps the backslash it reads
RECURSIVE tokenLoop_KeepsBackslash(_, _, _, _, _)
tokenLoop_KeepsBackslash(line, i, cur, inQuotes, tokens) ==
    IF i > Len(line) THEN Push(tokens, cur)
    ELSE LET c == line[i]
         IN  CASE c = "\\" ->
                    tokenLoop_KeepsBackslash(line, i + 1, cur \o <<c>>, inQuotes, tokens)
               [] c = "\"" ->
                    tokenLoop_KeepsBackslash(line, i + 1, cur, ~inQuotes, tokens)
               [] c = " " /\ ~inQuotes ->
                    tokenLoop_KeepsBackslash(line, i + 1, << >>, inQuotes, Push(tokens, cur))
               [] OTHER ->
                    tokenLoop_KeepsBackslash(line, i + 1, cur \o <<c>>, inQuotes, tokens)

\* the loop of splitTokensPreservingQuotes from index i on, and its last line
RECURSIVE tokenLoop(_, _, _, _, _)
tokenLoop(line, i, cur, inQuotes, tokens) ==
    IF i > Len(line) THEN Push(tokens, cur)
    ELSE LET c == line[i]
         IN  CASE c = "\\" ->
                    IF i + 1 <= Len(line)
                    THEN tokenLoop(line, i + 2, cur \o <<line[i + 1]>>, inQuotes, tokens)
                    ELSE tokenLoop(line, i + 1, cur, inQuotes, tokens)
               [] c = "\"" ->
                    tokenLoop(line, i + 1, cur, ~inQuotes, tokens)
               [] c = " " /\ ~inQuotes ->
                    tokenLoop(line, i + 1, << >>, inQuotes, Push(tokens, cur))
               [] OTHER ->
                    tokenLoop(line, i + 1, cur \o <<c>>, inQuotes, tokens)

splitTokensPreservingQuotes(line) == tokenLoop(line, 1, << >>, FALSE, << >>)

\* String.prototype.indexOf('='): 0 when the token has none
indexOfEq(t) ==
    IF \E i \in DOMAIN t : t[i] = "="
    THEN CHOOSE i \in DOMAIN t : t[i] = "=" /\ \A j \in 1..(i - 1) : t[j] # "="
    ELSE 0

\* the values of a parameter map: true, or a text
True == [flag |-> TRUE, text |-> << >>]
Text(v) == [flag |-> FALSE, text |-> v]

\* `out[k] = v` on a parameter map
Assign(m, k, v) == [x \in DOMAIN m \cup {k} |-> IF x = k THEN v ELSE m[x]]

\* a decoder that cuts the value at its next '='
RECURSIVE paramsLoop_CutsValue(_, _)
paramsLoop_CutsValue(tokens, m) ==
    IF tokens = << >> THEN m
    ELSE LET t == Head(tokens)
             eq == indexOfEq(t)
             v == SubSeq(t, eq + 1, Len(t))
         IN  IF eq = 0
             THEN paramsLoop_CutsValue(Tail(tokens), Assign(m, t, True))
             ELSE paramsLoop_CutsValue(Tail(tokens),
                     Assign(m, SubSeq(t, 1, eq - 1),
                            Text(IF indexOfEq(v) = 0 THEN v
                                 ELSE SubSeq(v, 1, indexOfEq(v) - 1))))

\* the loop of parseParams over the tokens
RECURSIVE paramsLoop(_, _)
paramsLoop(tokens, m) ==
    IF tokens = << >> THEN m
    ELSE LET t == Head(tokens)
             eq == indexOfEq(t)
         IN  IF eq = 0
             THEN paramsLoop(Tail(tokens), Assign(m, t, True))
             ELSE paramsLoop(Tail(tokens),
                             Assign(m, SubSeq(t, 1, eq - 1),
                                    Text(SubSeq(t, eq + 1, Len(t)))))

parseParams(body) == paramsLoop(splitTokensPreservingQuotes(body), << >>)

\* no codec function is running
CodecIdle == codec.fn = "none"

\* handleLine splits the body of a received line into tokens ...
Tokenize ==
    /\ CodecIdle
    /\ \E body \in Bodies :
          codec' = [fn |-> "splitTokensPreservingQuotes", arg |-> body,
                    result |-> splitTokensPreservingQuotes(body)]
    /\ UNCHANGED <<bridgeVars, surfaces, frameVars, registryVars>>

\* ... and decodes them
ParseParams ==
    /\ CodecIdle
    /\ \E body \in Bodies :
          codec' = [fn |-> "parseParams", arg |-> body, result |-> parseParams(body)]
    /\ UNCHANGED <<bridgeVars, surfaces, frameVars, registryVars>>

\* the caller has taken the result
CodecReturn ==
    /\ ~CodecIdle
    /\ codec' = [fn |-> "none", arg |-> << >>, result |-> << >>]
    /\ UNCHANGED <<bridgeVars, surfaces, frameVars, registryVars>>

\* most parameters of a command that is encoded
MaxArgs == 3

\* the parameters a command is given: key, type and value
ArgPool ==
    { [k |-> "DEVICEID", type |-> "string", b |-> FALSE, n |-> 0, s |-> "dev1"],
      [k |-> "DEVICEID", type |-> "string", b |-> FALSE, n |-> 0, s |-> "a\"b"],
      [k |-> "DEVICEID", type |-> "string", b |-> FALSE, n |-> 0, s |-> "a b"],
      [k |-> "PINCODE_LOCK", type |-> "string", b |-> FALSE, n |-> 0, s |-> ""],
      [k |-> "PINCODE_LOCK", type |-> "string", b |-> FALSE, n |-> 0, s |-> "a=b"],
      [k |-> "KEY", type |-> "number", b |-> FALSE, n |-> 3, s |-> ""],
      [k |-> "KEY", type |-> "number", b |-> FALSE, n |-> 120, s |-> ""],
      [k |-> "PRESSED", type |-> "boolean", b |-> TRUE, n |-> 0, s |-> ""],
      [k |-> "PRESSED", type |-> "boolean", b |-> FALSE, n |-> 0, s |-> ""] }

\* Object.entries(args): the parameters in the order they were given, a key
\* once
ArgLists ==
    UNION { {a \in [1..n -> ArgPool] : \A i, j \in 1..n : a[i].k = a[j].k => i = j} :
            n \in 0..MaxArgs }

\* `${v}` of a number that is a non-negative integer
RECURSIVE Decimal(_)
Decimal(n) ==
    IF n < 10 THEN <<Digits[n + 1]>> ELSE Decimal(n \div 10) \o <<Digits[(n % 10) + 1]>>

\* a sendCommand that leaves text values bare
RECURSIVE chunks_Unquoted(_)
chunks_Unquoted(args) ==
    IF args = << >> THEN << >>
    ELSE LET a == Head(args)
         IN  <<" ">> \o Chars(a.k) \o <<"=">>
             \o (CASE a.type = "boolean" -> IF a.b THEN <<"1">> ELSE <<"0">>
                   [] a.type = "number" -> Decimal(a.n)
                   [] OTHER -> Chars(a.s))
             \o chunks_Unquoted(Tail(args))

\* the chunks sendCommand pushes after the verb, each behind the space that
\* join(' ') puts before it
RECURSIVE chunks(_)
chunks(args) ==
    IF args = << >> THEN << >>
    ELSE LET a == Head(args)
         IN  <<" ">> \o Chars(a.k) \o <<"=">>
             \o (CASE a.type = "boolean" -> IF a.b THEN <<"1">> ELSE <<"0">>
                   [] a.type = "number" -> Decimal(a.n)
                   [] OTHER -> <<"\"">> \o Chars(a.s) \o <<"\"">>)
             \o chunks(Tail(args))

\* what sendLine writes to the socket for a line
written(line) ==
    IF line # << >> /\ line[Len(line)] = "\n" THEN line ELSE line \o <<"\n">>

\* what sendCommand has sendLine write while the bridge is connected
encoded(cmd, args) == written(Chars(cmd) \o chunks(args))

\* the bridge sends a command
SendCommand ==
    /\ CodecIdle
    /\ \E args \in ArgLists :
          codec' = [fn |-> "sendCommand", arg |-> args,
                    result |-> encoded("KEY-PRESS", args)]
    /\ UNCHANGED <<bridgeVars, surfaces, frameVars, registryVars>>

\* most columns and most rows of the grids whose keys are indexed
MaxGrid == 3

\* a device descriptor of every grid size up to MaxGrid
Grids ==
    { [id |-> "dev1", columns |-> c, rows |-> r, bitmap |-> 72, backgroundOpacity |-> 60] :
        c \in 1..MaxGrid, r \in 1..MaxGrid }

\* the KEY argument keyPress hands to sendCommand for key (x, y) of `dev`
pressedIndex(dev, x, y) ==
    LET w == keyPress([W EXCEPT !.devices = <<dev>>, !.socket = "open",
                                !.connected = TRUE, !.out = << >>],
                      dev.id, Num(x), Num(y), TRUE)
    IN  w.out[1].args.KEY

\* a device window reports a key of its grid
KeyIndex ==
    /\ CodecIdle
    /\ \E dev \in Grids :
          \E x \in 0..(dev.columns - 1), y \in 0..(dev.rows - 1) :
              codec' = [fn |-> "keyPress", arg |-> [dev |-> dev, x |-> x, y |-> y],
                        result |-> pressedIndex(dev, x, y)]
    /\ UNCHANGED <<bridgeVars, surfaces, frameVars, registryVars>>

\* the peer addresses a key of a grid by its flat index, written in decimal
KeyAt ==
    /\ CodecIdle
    /\ \E dev \in Grids :
          \E i \in 0..(dev.columns * dev.rows - 1) :
              codec' = [fn |-> "KEY-STATE", arg |-> [dev |-> dev, KEY |-> Decimal(i)],
                        result |-> decodeIndex(dev, Decimal(i))]
    /\ UNCHANGED <<bridgeVars, surfaces, frameVars, registryVars>>

\* a handleLine that takes the verb as it is written
splitLine_AsWritten(line) ==
    LET spaces == {i \in DOMAIN line : line[i] = " "}
        firstSpace == IF spaces = {} THEN 0
                      ELSE CHOOSE i \in spaces : \A j \in spaces : i <= j
    IN  [cmd |-> IF firstSpace = 0 THEN line ELSE SubSeq(line, 1, firstSpace - 1),
         params |-> parseParams(IF firstSpace = 0 THEN << >>
                                ELSE SubSeq(line, firstSpace + 1, Len(line)))]

\* the first lines of handleLine: the verb is the text before the first
\* space, upper-cased; the parameters are decoded from the text after it
splitLine(line) ==
    LET lower == <<"a", "b", "c", "d", "e", "f", "g", "h", "i", "j", "k", "l", "m",
                   "n", "o", "p", "q", "r", "s", "t", "u", "v", "w", "x", "y", "z">>
        upper == <<"A", "B", "C", "D", "E", "F", "G", "H", "I", "J", "K", "L", "M",
                   "N", "O", "P", "Q", "R", "S", "T", "U", "V", "W", "X", "Y", "Z">>
        toUpperCase(cs) ==
            [i \in DOMAIN cs |->
                IF \E j \in DOMAIN lower : lower[j] = cs[i]
                THEN upper[CHOOSE j \in DOMAIN lower : lower[j] = cs[i]]
                ELSE cs[i]]
        spaces == {i \in DOMAIN line : line[i] = " "}
        firstSpace == IF spaces = {} THEN 0
                      ELSE CHOOSE i \in spaces : \A j \in spaces : i <= j
    IN  [cmd |-> toUpperCase(IF firstSpace = 0 THEN line
                             ELSE SubSeq(line, 1, firstSpace - 1)),
         params |-> parseParams(IF firstSpace = 0 THEN << >>
                                ELSE SubSeq(line, firstSpace + 1, Len(line)))]

\* a command the bridge wrote is received: handleData cuts the line at the
\* first newline and handleLine decodes it
Decode ==
    /\ CodecIdle
    /\ \E cmd \in {"KEY-PRESS", "Key-Press"}, args \in ArgLists :
          LET wire == encoded(cmd, args)
              idx == CHOOSE i \in DOMAIN wire :
                         wire[i] = "\n" /\ \A j \in 1..(i - 1) : wire[j] # "\n"
              cut == SubSeq(wire, 1, idx - 1)
              line == IF cut # << >> /\ cut[Len(cut)] = "\r"
                      THEN SubSeq(cut, 1, Len(cut) - 1) ELSE cut
          IN  codec' = [fn |-> "handleLine", arg |-> [cmd |-> cmd, args |-> args],
                        result |-> splitLine(line)]
    /\ UNCHANGED <<bridgeVars, surfaces, frameVars, registryVars>>

NextCodec ==
    \/ Tokenize
    \/ ParseParams
    \/ SendCommand
    \/ KeyIndex
    \/ KeyAt
    \/ Decode
    \/ CodecReturn

SpecCodec == Init /\ [][NextCodec]_vars

\* what the tokenizer is to do with each character of a body, from index i
\* on: "keep" it in the token, "drop" it (a quote, a backslash that escapes),
\* or end the token there ("sep": a space outside quotes)
RECURSIVE Marks(_, _, _)
Marks(line, i, inQuotes) ==
    IF i > Len(line) THEN << >>
    ELSE CASE line[i] = "\\" /\ i < Len(line) -> <<"drop", "keep">> \o Marks(line, i + 2, inQuotes)
           [] line[i] = "\\" /\ i = Len(line) -> <<"drop">>
           [] line[i] = "\"" -> <<"drop">> \o Marks(line, i + 1, ~inQuotes)
           [] line[i] = " " /\ ~inQuotes -> <<"sep">> \o Marks(line, i + 1, inQuotes)
           [] OTHER -> <<"keep">> \o Marks(line, i + 1, inQuotes)

\* the kept characters of positions from..to of a body
RECURSIVE Kept(_, _, _, _)
Kept(line, marks, from, to) ==
    IF from > to THEN << >>
    ELSE (IF marks[from] = "keep" THEN <<line[from]>> ELSE << >>)
         \o Kept(line, marks, from + 1, to)

\* the tokens of a body: the kept characters of every stretch between two
\* separators, in order, the empty stretches left out
ExpectedTokens(line) ==
    LET marks == Marks(line, 1, FALSE)
        seps == {0, Len(line) + 1} \cup {i \in DOMAIN line : marks[i] = "sep"}
        starts == {s \in seps : s <= Len(line) /\ Kept(line, marks, s + 1,
                       (CHOOSE e \in seps : e > s /\ \A x \in seps : x > s => e <= x) - 1) # << >>}
        TokenAt(s) == Kept(line, marks, s + 1,
                           (CHOOSE e \in seps : e > s /\ \A x \in seps : x > s => e <= x) - 1)
        Nth(n) == CHOOSE s \in starts : Cardinality({x \in starts : x < s}) = n - 1
    IN  [n \in 1..Cardinality(starts) |-> TokenAt(Nth(n))]

\* C24: the tokens of a body are its stretches between spaces outside double
\* quotes, with the quotes removed and with every backslash dropped and the
\* character after it copied, inside quotes and outside; no token is empty,
\* an unmatched quote still yields the last token, and the body
\* A B="x y" C gives A, B=x y, C.
C24_Tokenizer ==
    codec.fn = "splitTokensPreservingQuotes" =>
        /\ codec.result = ExpectedTokens(codec.arg)
        /\ \A n \in DOMAIN codec.result : codec.result[n] # << >>
        /\ codec.arg = ExampleBody =>
              codec.result = << <<"A">>, <<"B", "=", "x", " ", "y">>, <<"C">> >>
        /\ codec.arg = <<"a", " ", "\"", "a", " ">> =>
              codec.result = << <<"a">>, <<"a", " ">> >>

\* the body  "a \"  is one token: a, a space and a quote
C24_Witness ==
    /\ codec.fn = "splitTokensPreservingQuotes"
    /\ codec.arg = <<"\"", "a", " ", "\\", "\"">>
    /\ codec.result = << <<"a", " ", "\"">> >>

\* the text of a token before its first '=' (all of it when it has none), and
\* what the token gives its key: true without '=', the text after the first
\* '=' with it
KeyOf(t) ==
    CHOOSE k \in {SubSeq(t, 1, n) : n \in 0..Len(t)} :
        /\ \A i \in DOMAIN k : k[i] # "="
        /\ Len(k) = Len(t) \/ t[Len(k) + 1] = "="

ValueOf(t) ==
    IF KeyOf(t) = t THEN True
    ELSE Text(CHOOSE v \in {SubSeq(t, n, Len(t)) : n \in 1..(Len(t) + 1)} :
                  KeyOf(t) \o <<"=">> \o v = t)

\* C25: decoding a body gives a map that holds, for every token, the text
\* before the token's first '=' (the whole token when it has none) as a key;
\* the key maps to what the last token that names it gives: true for a token
\* without '=', the text after the first '=', later '=' included, otherwise.
\* A body without tokens gives the empty map.
C25_ParamDecoding ==
    codec.fn = "parseParams" =>
        LET tokens == splitTokensPreservingQuotes(codec.arg)
            LastFor(k) == CHOOSE n \in DOMAIN tokens :
                              /\ KeyOf(tokens[n]) = k
                              /\ \A j \in DOMAIN tokens : KeyOf(tokens[j]) = k => j <= n
        IN  /\ DOMAIN codec.result = {KeyOf(tokens[n]) : n \in DOMAIN tokens}
            /\ \A k \in DOMAIN codec.result : codec.result[k] = ValueOf(tokens[LastFor(k)])
            /\ tokens = << >> => codec.result = << >>

\* the body  a=a=a  maps a to a=a
C25_Witness ==
    /\ codec.fn = "parseParams"
    /\ codec.arg = <<"a", "=", "a", "=", "a">>
    /\ DOMAIN codec.result = {<<"a">>}
    /\ codec.result[<<"a">>] = Text(<<"a", "=", "a">>)

\* the decimal text of the numbers the commands carry
DecimalText(n) == CASE n = 3 -> <<"3">> [] n = 120 -> <<"1", "2", "0">>

\* the text of one parameter of a command: KEY=VALUE
RenderedArg(a) ==
    Chars(a.k) \o <<"=">>
    \o (CASE a.type = "boolean" -> (IF a.b THEN <<"1">> ELSE <<"0">>)
          [] a.type = "number" -> DecimalText(a.n)
          [] OTHER -> <<"\"">> \o Chars(a.s) \o <<"\"">>)

\* where the text of parameter i starts in the line of a command
RECURSIVE ArgStart(_, _)
ArgStart(args, i) ==
    IF i = 1 THEN Len(Chars("KEY-PRESS")) + 2
    ELSE ArgStart(args, i - 1) + Len(RenderedArg(args[i - 1])) + 1

\* C26: the line written for a command is the verb, then for each parameter,
\* in the order given, one space and KEY=VALUE, the value 1 or 0 for a
\* boolean, decimal text for a number and the text between double quotes,
\* unescaped, for anything else; then one newline, the only one at its end.
C26_CommandEncoding ==
    codec.fn = "sendCommand" =>
        LET line == codec.result
            args == codec.arg
            verb == Chars("KEY-PRESS")
            end == IF args = << >> THEN Len(verb)
                   ELSE ArgStart(args, Len(args)) + Len(RenderedArg(args[Len(args)])) - 1
        IN  /\ Len(line) = end + 1
            /\ SubSeq(line, 1, Len(verb)) = verb
            /\ \A i \in DOMAIN args :
                  /\ line[ArgStart(args, i) - 1] = " "
                  /\ SubSeq(line, ArgStart(args, i),
                            ArgStart(args, i) + Len(RenderedArg(args[i])) - 1)
                         = RenderedArg(args[i])
            /\ line[Len(line)] = "\n"
            /\ line[Len(line) - 1] # "\n"

\* KEY-PRESS DEVICEID="a"b" KEY=120 PRESSED=0 and a newline
C26_Witness ==
    /\ codec.fn = "sendCommand"
    /\ Len(codec.arg) = 3
    /\ codec.arg[1].s = "a\"b" /\ codec.arg[2].n = 120 /\ codec.arg[3].type = "boolean"
    /\ ~codec.arg[3].b
    /\ codec.result = Chars("KEY-PRESS") \o <<" ">> \o Chars("DEVICEID")
                      \o <<"=", "\"", "a", "\"", "b", "\"", " ">> \o Chars("KEY")
                      \o <<"=", "1", "2", "0", " ">> \o Chars("PRESSED") \o <<"=", "0", "\n">>

\* the value a descriptor takes for a number of its entry: the default when
\* it is no number, the nearest of lo..hi otherwise
Taken(v, lo, hi, default) == IF v.nan THEN default ELSE Clamped(v.n, lo, hi)

\* the entries of a configuration that carry a usable id
Usable(cfg) ==
    {i \in DOMAIN cfg : cfg[i].obj /\ cfg[i].id # NotString /\ Trim(cfg[i].id) # ""}

\* C27: after a configuration reload the devices are, one descriptor each, the
\* distinct non-empty trimmed string ids of the entries of the new
\* configuration, the other entries being dropped; a descriptor takes the
\* numbers of its entry, the default for what is no number and the nearest
\* bound for what is out of range, so at all times columns and rows are in
\* 1..32, bitmap in 1..512 and backgroundOpacity in 0..100.
C27_ReloadClampsDescriptors ==
    /\ \A i \in DOMAIN devices :
          /\ devices[i].columns \in 1..32 /\ devices[i].rows \in 1..32
          /\ devices[i].bitmap \in 1..512 /\ devices[i].backgroundOpacity \in 0..100
    /\ \A i, j \in DOMAIN devices : devices[i].id = devices[j].id => i = j
    /\ op.name = "config" =>
          LET cfg == op.line.cfg
          IN  /\ Ids(devices) = {Trim(cfg[i].id) : i \in Usable(cfg)}
              /\ \A i \in Usable(cfg) :
                    (\A j \in Usable(cfg) : Trim(cfg[j].id) = Trim(cfg[i].id) => j <= i) =>
                        MapGet(devices, Trim(cfg[i].id)) =
                            [id |-> Trim(cfg[i].id),
                             columns |-> Taken(cfg[i].columns, 1, 32, 8),
                             rows |-> Taken(cfg[i].rows, 1, 32, 4),
                             bitmap |-> Taken(cfg[i].bitmap, 1, 512, 72),
                             backgroundOpacity |-> Taken(cfg[i].backgroundOpacity, 0, 100, 60)]
    /\ clampInt(parseInt(<<"a", "b", "c">>), 1, 32, 8) = 8
    /\ clampInt(parseInt(<<"9", "9", "9">>), 1, 32, 8) = 32

\* a reload of two entries drops the one whose id is blank and keeps " dev2 "
\* as dev2, with the default columns, rows and bitmap at their bounds
C27_Witness ==
    /\ op.name = "config" /\ Len(op.line.cfg) = 2
    /\ devices = <<[id |-> "dev2", columns |-> 8, rows |-> 1, bitmap |-> 512,
                    backgroundOpacity |-> 60]>>

\* the fields of the bridge, its windows and its surfaces
BridgeState ==
    <<socket, connected, connecting, reconnectTimer, lastBegin, devices,
      registeredDevices, pendingDevices, windows, surfaces, timers, closing>>

C29_UnknownKeyStateIgnored ==
    [][ (/\ op'.name = "data" /\ op'.line.cmd = "KEY-STATE"
         /\ Get(op'.line.params, "DEVICEID") \notin Ids(devices)) =>
            /\ BridgeState' = BridgeState
            /\ draws' = << >> /\ clears' = << >> /\ out' = << >> /\ dials' = 0 ]_vars

\* an update for devX arrived while a device was configured and its window
\* open
C29_Witness ==
    /\ Handled("KEY-STATE") /\ Get(op.line.params, "DEVICEID") = "devX"
    /\ Get(op.line.params, "TEXT") = "QQ=="
    /\ windows # {} /\ connected /\ draws = << >>

\* C30: after a configuration reload, every id that was configured before
\* and that the new configuration does not carry has no descriptor, no
\* surface in the registry and no open window; at all times the ids with an
\* open window are configured ids.
C30_ReloadDropsRemoved ==
    /\ windows \subseteq Ids(devices)
    /\ op.name = "config" =>
          \A id \in op.line.devices :
              id \notin {Trim(op.line.cfg[i].id) : i \in Usable(op.line.cfg)} =>
                  /\ ~Has(devices, id)
                  /\ id \notin DOMAIN surfaces
                  /\ id \notin windows

\* a reload dropped a device whose window was open and kept another with
\* its window
C30_Witness ==
    /\ op.name = "config"
    /\ \E id \in op.line.windows : ~Has(devices, id)
    /\ windows # {}

\* C31 (as claimed): the 'close' of a socket that connect() or reconnect()
\* has replaced leaves the flags, the peer announcement, the handshake sets
\* and the reconnection timer of the new socket as they were.
C31_StaleEventsIgnored ==
    [][ (op'.name = "staleclose" /\ socket \in Live) =>
            UNCHANGED <<connected, connecting, lastBegin, registeredDevices,
                        pendingDevices, reconnectTimer, timers>> ]_vars

\* the bridge is Active: connected on the current socket and announced to
Active == socket = "open" /\ connected /\ lastBegin # << >>

\* C32 (as claimed): once Active the bridge stays Active until the current
\* socket errors or closes or reconnect() or disconnect() is called, by a
\* caller or by a configuration change; it tears down no healthy connection
\* on its own.
C32_StaysActive ==
    [][ (Active /\ op'.name \notin {"error", "close", "reconnect", "disconnect", "config"})
            => Active' ]_vars

\* C33 (as claimed): the registered set and the pending set hold ids of
\* configured devices only, so registeredCount never exceeds deviceCount.
C33_SetsAreConfigured ==
    /\ registeredDevices \subseteq Ids(devices)
    /\ pendingDevices \subseteq Ids(devices)
    /\ Cardinality(registeredDevices) <= Len(devices)

C35_OnlyPendingRegisters ==
    (registeredDevices \ pre.registered) \subseteq pre.pending

\* ------------------------------------------------------------------------
\* Registration with a cooperative peer
\* ------------------------------------------------------------------------
\* The bridge facing a peer that accepts every connection, sends BEGIN once
\* on each, acknowledges every ADD-DEVICE with OK and never drops the
\* connection.  What the peer still owes is read off the bridge: a BEGIN
\* while none has arrived on this socket, an acknowledgment for every device
\* that is pending (pending is exactly "ADD-DEVICE written on this socket and
\* not yet acknowledged").  socket.connect() does not throw.  The
\* configuration changes by gaining devices, so it comes to rest.

\* init(), and a configuration change that adds devices
Reload ==
    /\ ConfigChange
    /\ socket' # "new"
    /\ Ids(devices) \subseteq Ids(devices') /\ Ids(devices') # Ids(devices)

\* the peer's BEGIN on a connection that has none yet
PeerBegin == SocketData /\ lastBegin = << >> /\ op'.line.cmd = "BEGIN"

\* the peer's acknowledgment, with OK, of an ADD-DEVICE it received
PeerAck ==
    /\ SocketData
    /\ op'.line.cmd = "ADD-DEVICE"
    /\ Get(op'.line.params, "DEVICEID") \in pendingDevices
    /\ AckOk(op'.line.params) /\ ~AckError(op'.line.params)

\* the reconnection timer expires and the new socket starts connecting
Redial == TimerFire /\ socket' # "new"

NextLive ==
    \/ Reload
    \/ SocketConnect
    \/ PeerBegin
    \/ PeerAck
    \/ StaleClose
    \/ Redial

\* the event loop delivers every socket event and every expired timer, and
\* the peer sends what it owes
SpecLive ==
    /\ Init /\ [][NextLive]_vars
    /\ WF_vars(SocketConnect) /\ WF_vars(PeerBegin) /\ WF_vars(PeerAck)
    /\ WF_vars(StaleClose) /\ WF_vars(Redial)

\* C36 (as claimed): with a cooperative peer and fair delivery of socket and
\* timer events every configured device eventually is registered and stays
\* registered, the devices a reload adds during an Active connection
\* included.
C36_RegistrationLiveness == <>[](Ids(devices) \subseteq registeredDevices)

\* ------------------------------------------------------------------------
\* Two subscriber connections and one registry
\* ------------------------------------------------------------------------

\* two socket.io connections open at a time
Subscribers == {"s1", "s2"}

\* io.sockets.on('connection'), for either of them
SubscriberConnect ==
    \E c \in Subscribers \ clients :
        CommitRegistry([R EXCEPT !.emits = <<[to |-> c, event |-> "control_status"]>>],
                       "connection", c, NoPayload, owned, clients \cup {c})

NextOwners ==
    \/ SubscriberConnect
    \/ SurfaceRegister
    \/ ClientDisconnect

SpecOwners == Init /\ [][NextOwners]_vars

\* C37 (as claimed): the end of one subscriber connection removes no surface
\* that another connection, still open, was the last to register under that
\* surface id.
C37_DisconnectRemovesOwnOnly ==
    [][ ev'.name = "disconnect" =>
            \A id \in DOMAIN surfaces :
                (\E c \in clients \ {ev'.client} : <<c, id>> \in owned)
                    => id \in DOMAIN surfaces' ]_vars

\* C38 (as claimed): every surface the registry holds has integer columns
\* and rows, each within 1..32, whatever the register event carried.
C38_GridWithinLimits ==
    \A id \in DOMAIN surfaces :
        /\ ~surfaces[id].columns.nan /\ surfaces[id].columns.n \in 1..32
        /\ ~surfaces[id].rows.nan /\ surfaces[id].rows.n \in 1..32

\* C39: key index round trip.  For every key (x, y) of a grid the flat index
\* keyPress emits is y * columns + x, and its decimal text decodes under the
\* flat-index rule of KEY-STATE to (x, y); every index of 0..columns*rows-1
\* decodes to a key of the grid whose keyPress index is that index.
C39_KeyIndexRoundTrip ==
    /\ codec.fn = "keyPress" =>
          /\ codec.result = codec.arg.y * codec.arg.dev.columns + codec.arg.x
          /\ decodeIndex(codec.arg.dev, Decimal(codec.result))
                 = [x |-> codec.arg.x, y |-> codec.arg.y]
    /\ codec.fn = "KEY-STATE" =>
          /\ codec.result.x \in 0..(codec.arg.dev.columns - 1)
          /\ codec.result.y \in 0..(codec.arg.dev.rows - 1)
          /\ Decimal(pressedIndex(codec.arg.dev, codec.result.x, codec.result.y))
                 = codec.arg.KEY

\* the last key of the second row of a grid of three columns and two rows
C39_Witness ==
    /\ codec.fn = "keyPress"
    /\ codec.arg.dev.columns = 3 /\ codec.arg.dev.rows = 2
    /\ codec.arg.x = 2 /\ codec.arg.y = 1
    /\ codec.result = 5

\* C40: codec round trip.  For a command whose text values hold no double
\* quote, backslash or newline (spaces, '=' and the empty text allowed),
\* decoding the encoded line yields the verb in upper case and exactly the
\* keys given, each with the text of its value: 1 or 0 for a boolean, the
\* decimal text of a number, the text itself otherwise.
C40_CodecRoundTrip ==
    LET args == codec.arg.args
        plain(a) == a.type = "string" =>
                        \A i \in DOMAIN Chars(a.s) : Chars(a.s)[i] \notin {"\"", "\\", "\n"}
        text(a) == CASE a.type = "boolean" -> (IF a.b THEN <<"1">> ELSE <<"0">>)
                     [] a.type = "number" -> DecimalText(a.n)
                     [] OTHER -> Chars(a.s)
    IN  (codec.fn = "handleLine" /\ \A i \in DOMAIN args : plain(args[i])) =>
            /\ codec.result.cmd = Chars("KEY-PRESS")
            /\ DOMAIN codec.result.params = {Chars(args[i].k) : i \in DOMAIN args}
            /\ \A i \in DOMAIN args :
                  codec.result.params[Chars(args[i].k)] = Text(text(args[i]))

\* Key-Press DEVICEID="a b" PINCODE_LOCK="" KEY=120 is decoded
C40_Witness ==
    /\ codec.fn = "handleLine"
    /\ codec.arg.cmd = "Key-Press"
    /\ Len(codec.arg.args) = 3
    /\ codec.arg.args[1].s = "a b"
    /\ codec.arg.args[2].k = "PINCODE_LOCK" /\ codec.arg.args[2].s = ""
    /\ codec.arg.args[3].n = 120
    /\ codec.result.cmd = Chars("KEY-PRESS")
    /\ codec.result.params[Chars("DEVICEID")] = Text(<<"a", " ", "b">>)
    /\ codec.result.params[Chars("PINCODE_LOCK")] = Text(<< >>)
    /\ codec.result.params[Chars("KEY")] = Text(<<"1", "2", "0">>)

====
